---- MODULE Spec2Model ----
(***************************************************************************)
(* A model of keithclark/imagedata-planar: the bit-plane codec             *)
(* (BitplaneReader / BitplaneWriter / encode / decode), the pixel-buffer   *)
(* bridge, the packbits codec, the IFF chunk reader / writer and the IFF   *)
(* container encoder / decoder.                                            *)
(*                                                                         *)
(* Byte buffers are sequences of 0..255; a JavaScript offset o is element  *)
(* o + 1 of the sequence.  A 32-bit RGBA value is the tuple of its four    *)
(* bytes <<r, g, b, a>> (most significant first).                          *)
(***************************************************************************)
EXTENDS Integers, Sequences, FiniteSets, TLC

VARIABLES
  imageData,    \* codec: the ImageData passed to encode / read by the pixel reader
  palette,      \* codec: the IndexedPalette passed to encode / decode
  options,      \* codec: the {planes, format} option bag (planes = "default" when omitted)
  buffer,       \* codec: the bit-plane buffer (result of encode / destination of encodeToBuffer)
  decoded,      \* codec: the ImageData returned by decode
  pc,           \* codec: last call and how it ended
  ipr,          \* pixel bridge: ImageDataIndexedPaletteReader {#pos, #palette} and its last result
  planeData,    \* packbits: the bytes passed to pack
  planeLength,  \* packbits: the bytesPerLine passed to pack
  compressedData, \* packbits: the bytes pack returned
  outputBuffer, \* packbits: the bytes depack returned
  reader,       \* IFF: an IffChunkReader {byteOffset, byteLength, #pos} on buffer, and its last error
  chunks,       \* IFF: the chunks readChunk returned so far, as [id, length, data]
  made,         \* IFF: how the bytes in buffer were made
  meta,         \* IFF: the metadata returned by the container decoder
  writer,       \* IFF: an IffChunkWriter {#view, #pos, #chunkOffsetStack} and its last result
  ham,          \* IFF: a HamReader and the colours it returned
  resampled     \* palette: the palette the last resample or helper call returned

codecVars == <<imageData, palette, options, buffer, decoded, ipr>>

packVars == <<planeData, planeLength, compressedData, outputBuffer>>

iffVars == <<reader, chunks, made, meta>>

toolVars == <<writer, ham, resampled>>

vars == <<codecVars, packVars, iffVars, toolVars, pc>>

----------------------------------------------------------------------------
(* Bounds of the model *)

MaxHeight == 2        \* image heights 1..MaxHeight
MaxTile == 2          \* number of distinct 8-pixel index patterns
MaxColors == 3        \* palette lengths 1..MaxColors

----------------------------------------------------------------------------
(* Helpers *)

Min(a, b) == IF a < b THEN a ELSE b

Max(a, b) == IF a > b THEN a ELSE b

\* n zero bytes: new Uint8Array(n)
Zeros(n) == [i \in 1..n |-> 0]

\* a nearest-entry lookup instead of an exact one: the last entry that differs from v
IndexOf_nearest(seq, v) ==
  IF \E i \in 1..Len(seq) : seq[i] # v
    THEN (CHOOSE i \in 1..Len(seq) : seq[i] # v /\ \A j \in (i + 1)..Len(seq) : seq[j] = v) - 1
    ELSE 0

\* Array.prototype.indexOf on a sequence: first 0-based index of v, or -1
IndexOf(seq, v) ==
  IF \E i \in 1..Len(seq) : seq[i] = v
    THEN (CHOOSE i \in 1..Len(seq) : seq[i] = v /\ \A j \in 1..(i - 1) : seq[j] # v) - 1
    ELSE 0 - 1

----------------------------------------------------------------------------
(* IndexedPalette  (src/lib/IndexedPalette.js)                             *)
(*                                                                         *)
(* A palette is [bitsPerChannel, den, colors]; a channel of a colour is    *)
(* the number  channel / den.  den = 1 for a palette filled by setColor    *)
(* with integers; resample() does not round, so a resampled palette keeps  *)
(* the quotient as numerator / den.                                        *)

MaxChannelValue(bitsPerChannel) == 2^bitsPerChannel - 1

\* an empty slot of the #colors array: new Array(n) has n of them
Hole == [r |-> 0 - 1, g |-> 0 - 1, b |-> 0 - 1, a |-> 0 - 1]

\* r / this.#maxChannelValue * resampledMaxValue, clamped by setColor;
\* forEach skips the empty slots
resample(p, bitsPerChannel) ==
  LET newMax == MaxChannelValue(bitsPerChannel)
      oldMax == MaxChannelValue(p.bitsPerChannel)
      newDen == p.den * oldMax
      Ch(v)  == Max(0, Min(v * newMax, newMax * newDen))
  IN [bitsPerChannel |-> bitsPerChannel,
      den |-> newDen,
      colors |-> [i \in 1..Len(p.colors) |->
                    IF p.colors[i] = Hole THEN Hole
                    ELSE [r |-> Ch(p.colors[i].r), g |-> Ch(p.colors[i].g),
                          b |-> Ch(p.colors[i].b), a |-> Ch(p.colors[i].a)]]]

\* The four bytes of the uint32  (r << 24) + (g << 16) + (b << 8) + a >>> 0
\* of an 8-bit palette.  `<<` truncates r, g, b to integers; a is added as
\* it is and the sum is truncated towards zero by `>>> 0`: the sum is
\* negative when r >= 128, and then a fractional a rounds up.
ValueOf8(c, den) ==
  LET r == (c.r \div den) % 256
      g == (c.g \div den) % 256
      b == (c.b \div den) % 256
      aDown == c.a \div den
      aUp == IF c.a % den = 0 THEN aDown ELSE aDown + 1
      a == IF r >= 128 THEN aUp ELSE aDown
      sum == g * 65536 + b * 256 + a
  IN <<r, (sum \div 65536) % 256, (sum \div 256) % 256, sum % 256>>

\* toValueArray(alpha = true) of a palette with 8 bits per channel
toValueArray(p) == [i \in 1..Len(p.colors) |-> ValueOf8(p.colors[i], p.den)]

\* Math.ceil(Math.log(palette.length) / Math.log(2))
getPlaneCountForIndexedPalette(p) ==
  CHOOSE n \in 0..8 : 2^n >= Len(p.colors) /\ \A m \in 0..(n - 1) : 2^m < Len(p.colors)

----------------------------------------------------------------------------
(* ImageDataIndexedPaletteReader / Writer  (src/unnamed/part_001)          *)

\* constructor: #pos = 0, setPalette(palette).  index, error and color hold
\* the outcome of the last call: the index returned, the exception thrown
\* and the colour its message carries.
ImageDataIndexedPaletteReader(p) ==
  [pos |-> 0, palette |-> toValueArray(resample(p, 8)),
   index |-> 0 - 1, error |-> "none", color |-> <<>>]

\* read(): getUint32 throws at the end of the view; the pixel at #pos is
\* looked up with indexOf; a miss throws and leaves #pos alone.  The 4 bytes
\* at #pos are pixel #pos / 4 of the image.
IPR_read(img, rd) ==
  IF rd.pos + 4 > 4 * Len(img.data)
    THEN [rd EXCEPT !.index = 0 - 1, !.error = "RangeError", !.color = <<>>]
    ELSE LET color == img.data[(rd.pos \div 4) + 1]
             index == IndexOf(rd.palette, color)
         IN IF index = 0 - 1
              THEN [rd EXCEPT !.index = 0 - 1, !.error = "RangeError", !.color = color]
              ELSE [rd EXCEPT !.pos = @ + 4, !.index = index, !.error = "none",
                              !.color = <<>>]

\* advance(pixels)
IPR_advance(rd, pixels) ==
  [rd EXCEPT !.pos = @ + 4 * pixels, !.index = 0 - 1, !.error = "none", !.color = <<>>]

\* setPalette(palette)
IPR_setPalette(rd, p) ==
  [rd EXCEPT !.palette = toValueArray(resample(p, 8)), !.index = 0 - 1,
             !.error = "none", !.color = <<>>]

\* eof()
IPR_eof(img, rd) == rd.pos = 4 * Len(img.data)

\* ImageDataIndexedPaletteWriter.write(color): setUint32(#pos, #palette[color]);
\* an index with no palette entry gives undefined, which setUint32 stores as 0
IPW_write(pal, color) ==
  IF color >= 0 /\ color < Len(pal) THEN pal[color + 1] ELSE <<0, 0, 0, 0>>

----------------------------------------------------------------------------
(* BitplaneReader  (src/lib/BitplaneReader.js)                             *)

\* `#colors = []`: an element that was never written reads as undefined
undefined == 0 - 1

\* new BitplaneReader(buffer, bytesPerBlock, blockStep, blocksPerLine, lineStep, planes, planeStep)
BitplaneReader(bytesPerBlock, blockStep, blocksPerLine, lineStep, planes, planeStep) ==
  [bytesPerBlock |-> bytesPerBlock, blockStep |-> blockStep,
   blocksPerLine |-> blocksPerLine, lineStep |-> lineStep,
   planes |-> planes, planeStep |-> planeStep,
   byte |-> 0, block |-> 0, line |-> 0, bit |-> 0,
   colors |-> [i \in 1..8 |-> undefined]]

\* BitplaneReader.contiguous(buffer, planes, width, height)
BitplaneReader_contiguous(planes, width, height) ==
  LET bytesPerPlane == (width \div 8) * height
  IN BitplaneReader(bytesPerPlane, 0, 1, 0, planes, bytesPerPlane)

\* BitplaneReader.line(buffer, planes, width)
BitplaneReader_line(planes, width) ==
  LET bytesPerLine == width \div 8
  IN BitplaneReader(bytesPerLine, 0, 1, bytesPerLine * planes, planes, bytesPerLine)

\* BitplaneReader.word(buffer, planes)
BitplaneReader_word(planes) == BitplaneReader(2, planes * 2, 2, planes * 4, planes, 2)

\* the bit taken from the wrong end of the byte: (this.#buffer[offset] >> bitNo) & 1
PlaneBit_lsb(buf, offset, bitNo) ==
  IF offset >= 0 /\ offset < Len(buf)
    THEN (buf[offset + 1] \div (2^bitNo)) % 2
    ELSE 0

\* (this.#buffer[offset] >> (7 - bitNo)) & 1.  An offset outside the typed
\* array reads undefined, and undefined >> n is 0: no exception is thrown.
PlaneBit(buf, offset, bitNo) ==
  IF offset >= 0 /\ offset < Len(buf)
    THEN (buf[offset + 1] \div (2^(7 - bitNo))) % 2
    ELSE 0

RECURSIVE PlaneSum(_, _, _, _, _, _)
\* color |= (bit << plane), for plane = from .. planes - 1
PlaneSum(buf, pos, planeStep, planes, bitNo, from) ==
  IF from >= planes THEN 0
  ELSE PlaneBit(buf, pos + from * planeStep, bitNo) * (2^from)
         + PlaneSum(buf, pos, planeStep, planes, bitNo, from + 1)

\* #next(): bit fastest, then byte, then block, then line
BitplaneReader_next(rd) ==
  IF rd.bit < 7 THEN [rd EXCEPT !.bit = @ + 1]
  ELSE IF rd.byte < rd.bytesPerBlock - 1 THEN [rd EXCEPT !.bit = 0, !.byte = @ + 1]
  ELSE IF rd.block < rd.blocksPerLine - 1 THEN [rd EXCEPT !.bit = 0, !.byte = 0, !.block = @ + 1]
  ELSE [rd EXCEPT !.bit = 0, !.byte = 0, !.block = 0, !.line = @ + 1]

\* The cache of eight colours read() holds after the call
BitplaneReader_cache(buf, rd) ==
  LET pos == rd.byte + rd.block * rd.blockStep + rd.line * rd.lineStep
  IN IF rd.bit = 0
       THEN [i \in 1..8 |-> PlaneSum(buf, pos, rd.planeStep, rd.planes, i - 1, 0)]
       ELSE rd.colors

\* read(): [rd |-> the reader after the call, color |-> the value returned]
BitplaneReader_read(buf, rd) ==
  LET colors == BitplaneReader_cache(buf, rd)
  IN [rd |-> BitplaneReader_next([rd EXCEPT !.colors = colors]),
      color |-> colors[rd.bit + 1]]

RECURSIVE BitplaneReader_advance(_, _)
\* advance(pixels)
BitplaneReader_advance(rd, pixels) ==
  IF pixels <= 0 THEN rd ELSE BitplaneReader_advance(BitplaneReader_next(rd), pixels - 1)

----------------------------------------------------------------------------
(* BitplaneWriter  (src/lib/BitplaneWriter.js)                             *)

\* new BitplaneWriter(buffer, bytesPerBlock, blockStep, blocksPerLine, lineStep, planes, planeStep)
BitplaneWriter(bytesPerBlock, blockStep, blocksPerLine, lineStep, planes, planeStep) ==
  [bytesPerBlock |-> bytesPerBlock, blockStep |-> blockStep,
   blocksPerLine |-> blocksPerLine, lineStep |-> lineStep,
   planes |-> planes, planeStep |-> planeStep,
   byte |-> 0, block |-> 0, line |-> 0, bit |-> 0]

\* Math.ceil(width / 8)
CeilDiv(a, b) == (a + b - 1) \div b

\* BitplaneWriter.contiguous(buffer, planes, width, height)
BitplaneWriter_contiguous(planes, width, height) ==
  LET bytesPerPlane == CeilDiv(width, 8) * height
  IN BitplaneWriter(bytesPerPlane, 0, 1, 0, planes, bytesPerPlane)

\* BitplaneWriter.line(buffer, planes, width)
BitplaneWriter_line(planes, width) ==
  LET bytesPerLine == CeilDiv(width, 8)
  IN BitplaneWriter(bytesPerLine, 0, 1, bytesPerLine * planes, planes, bytesPerLine)

\* BitplaneWriter.word(buffer, planes)
BitplaneWriter_word(planes) == BitplaneWriter(2, planes * 2, 2, planes * 4, planes, 2)

\* this.#buffer[offset] |= 1 << (7 - bit).  A store outside the typed array
\* is dropped: no exception is thrown.
OrBit(buf, offset, bitNo) ==
  IF offset >= 0 /\ offset < Len(buf)
    THEN [buf EXCEPT ![offset + 1] =
            IF (@ \div (2^(7 - bitNo))) % 2 = 1 THEN @ ELSE @ + 2^(7 - bitNo)]
    ELSE buf

RECURSIVE WritePlanes(_, _, _, _, _)
\* the loop over the planes in write(): bit = color & 1; color >>= 1
WritePlanes(buf, wr, pos, color, plane) ==
  IF plane >= wr.planes THEN buf
  ELSE WritePlanes(
         IF color % 2 = 1 THEN OrBit(buf, pos + plane * wr.planeStep, wr.bit) ELSE buf,
         wr, pos, color \div 2, plane + 1)

\* the cursor step at the end of write()
BitplaneWriter_next(wr) ==
  IF wr.bit < 7 THEN [wr EXCEPT !.bit = @ + 1]
  ELSE IF wr.byte < wr.bytesPerBlock - 1 THEN [wr EXCEPT !.bit = 0, !.byte = @ + 1]
  ELSE IF wr.block < wr.blocksPerLine - 1 THEN [wr EXCEPT !.bit = 0, !.byte = 0, !.block = @ + 1]
  ELSE [wr EXCEPT !.bit = 0, !.byte = 0, !.block = 0, !.line = @ + 1]

\* write(color): [buf |-> the buffer after the call, wr |-> the writer after the call]
BitplaneWriter_write(buf, wr, color) ==
  LET pos == wr.byte + wr.block * wr.blockStep + wr.line * wr.lineStep
  IN [buf |-> WritePlanes(buf, wr, pos, color, 0), wr |-> BitplaneWriter_next(wr)]

----------------------------------------------------------------------------
(* encode / encodeToBuffer  (src/unnamed/part_000),  decode (src/decode.js) *)

ENCODING_FORMAT_WORD == "word"

ENCODING_FORMAT_LINE == "line"

ENCODING_FORMAT_CONTIGUOUS == "contiguous"

\* const { planes = getPlaneCountForIndexedPalette(palette) } = options
OptPlanes(opts, p) ==
  IF "planes" \in DOMAIN opts THEN opts.planes ELSE getPlaneCountForIndexedPalette(p)

\* const { format = ENCODING_FORMAT_WORD } = options
OptFormat(opts) ==
  IF "format" \in DOMAIN opts THEN opts.format ELSE ENCODING_FORMAT_WORD

\* one turn of the loop of encodeInternal: writer.write(reader.read())
EncodeStep(img, st) ==
  LET rd2 == IPR_read(img, st.rd)
  IN IF rd2.error # "none"
       THEN [st EXCEPT !.error = rd2.error, !.rd = rd2]
       ELSE LET w == BitplaneWriter_write(st.buffer, st.wr, rd2.index)
            IN [error |-> "none", buffer |-> w.buf, wr |-> w.wr, rd |-> rd2,
                bytesToRead |-> st.bytesToRead - 1]

RECURSIVE EncodeTurns(_, _, _)
\* at most k turns of the loop of encodeInternal; a throw ends the loop
\* (the turns are evaluated as two halves, the second from the first's result)
EncodeTurns(img, st, k) ==
  IF k = 0 \/ st.bytesToRead = 0 \/ st.error # "none" THEN st
  ELSE IF k = 1 THEN EncodeStep(img, st)
  ELSE EncodeTurns(img, EncodeTurns(img, st, k \div 2), k - (k \div 2))

\* while (bytesToRead) { writer.write(reader.read()); bytesToRead--; }
EncodeLoop(img, st) == EncodeTurns(img, st, st.bytesToRead)

\* encodeInternal(buffer, imageData, palette, planes, format):
\* [error, buffer |-> the destination as the call leaves it]
encodeInternal(buf, img, p, planes, format) ==
  IF format \notin {ENCODING_FORMAT_CONTIGUOUS, ENCODING_FORMAT_LINE, ENCODING_FORMAT_WORD}
    THEN [error |-> "PlanarCoderError", buffer |-> buf]
    ELSE LET wr == IF format = ENCODING_FORMAT_CONTIGUOUS
                     THEN BitplaneWriter_contiguous(planes, img.width, img.height)
                   ELSE IF format = ENCODING_FORMAT_LINE
                     THEN BitplaneWriter_line(planes, img.width)
                   ELSE BitplaneWriter_word(planes)
             st == EncodeLoop(img, [error |-> "none", buffer |-> buf, wr |-> wr,
                                    rd |-> ImageDataIndexedPaletteReader(p),
                                    bytesToRead |-> img.width * img.height])
         IN [error |-> st.error, buffer |-> st.buffer]

\* encodeToBuffer without the test of buffer.byteLength
encodeToBuffer_nosize(buf, img, p, opts) ==
  IF img.width % 16 # 0 THEN [error |-> "PlanarCoderError", buffer |-> buf]
  ELSE encodeInternal(buf, img, p, OptPlanes(opts, p), OptFormat(opts))

\* encodeToBuffer(buffer, imageData, palette, options)
encodeToBuffer(buf, img, p, opts) ==
  LET planes == OptPlanes(opts, p)
      bufferSize8 == img.width * img.height * planes    \* 8 * bufferSize
  IN IF img.width % 16 # 0 THEN [error |-> "PlanarCoderError", buffer |-> buf]
     ELSE IF 8 * Len(buf) < bufferSize8 THEN [error |-> "PlanarCoderError", buffer |-> buf]
     ELSE encodeInternal(buf, img, p, planes, OptFormat(opts))

\* encode(imageData, palette, options): the buffer is returned only when
\* nothing was thrown
encode(img, p, opts) ==
  LET planes == OptPlanes(opts, p)
      bufferSize == (img.width * img.height * planes) \div 8
  IN IF img.width % 16 # 0 THEN [error |-> "PlanarCoderError", buffer |-> <<>>]
     ELSE LET r == encodeInternal(Zeros(bufferSize), img, p, planes, OptFormat(opts))
          IN IF r.error = "none" THEN r ELSE [error |-> r.error, buffer |-> <<>>]

\* writer.write(reader.read()); x++
DecodePixel(buf, pal, st) ==
  LET r == BitplaneReader_read(buf, st.rd)
  IN [st EXCEPT !.rd = r.rd, !.data = Append(@, IPW_write(pal, r.color)), !.x = @ + 1]

RECURSIVE DecodeTurns(_, _, _, _, _)
\* at most k turns of the loop over x
\* (the turns are evaluated as two halves, the second from the first's result)
DecodeTurns(buf, pal, width, st, k) ==
  IF k = 0 \/ st.x >= width THEN st
  ELSE IF k = 1 THEN DecodePixel(buf, pal, st)
  ELSE DecodeTurns(buf, pal, width, DecodeTurns(buf, pal, width, st, k \div 2), k - (k \div 2))

\* for (let x = 0; x < width; x++) writer.write(reader.read())
DecodeLine(buf, pal, width, st) == DecodeTurns(buf, pal, width, st, width)

RECURSIVE DecodeLoop(_, _, _, _, _, _)
\* for (let y = 0; y < height; y++) { ..; reader.advance(planeWidth - width); }
DecodeLoop(buf, pal, width, height, planeWidth, st) ==
  IF st.y >= height THEN st
  ELSE LET l == DecodeLine(buf, pal, width, [st EXCEPT !.x = 0])
       IN DecodeLoop(buf, pal, width, height, planeWidth,
                     [l EXCEPT !.rd = BitplaneReader_advance(l.rd, planeWidth - width),
                               !.y = @ + 1])

\* decode(buffer, width, height, palette, options)
decode(buf, width, height, p, opts) ==
  LET planes == OptPlanes(opts, p)
      format == OptFormat(opts)
      pal == toValueArray(resample(p, 8))
      planeWidth == CeilDiv(width, 8) * 8
  IN IF format \notin {ENCODING_FORMAT_CONTIGUOUS, ENCODING_FORMAT_LINE, ENCODING_FORMAT_WORD}
       THEN [error |-> "PlanarCoderError", imageData |-> <<>>]
       ELSE LET rd == IF format = ENCODING_FORMAT_CONTIGUOUS
                        THEN BitplaneReader_contiguous(planes, planeWidth, height)
                      ELSE IF format = ENCODING_FORMAT_LINE
                        THEN BitplaneReader_line(planes, planeWidth)
                      ELSE BitplaneReader_word(planes)
            IN [error |-> "none",
                imageData |-> [width |-> width, height |-> height,
                               data |-> DecodeLoop(buf, pal, width, height, planeWidth,
                                 [rd |-> rd, data |-> <<>>, x |-> 0, y |-> 0]).data]]

----------------------------------------------------------------------------
(* Inputs of the codec *)

\* colour k of the palettes of the model, as passed to setColor (alpha defaults to the maximum)
BaseColor(k, bitsPerChannel) ==
  LET max == MaxChannelValue(bitsPerChannel)
  IN [r |-> (k * 5 * (max \div 15)) % (max + 1),
      g |-> (k * 3 + 1) % (max + 1),
      b |-> max - k,
      a |-> max]

\* a palette of n colours; with dup its last colour repeats colour 0
Palette(n, bitsPerChannel, dup) ==
  [bitsPerChannel |-> bitsPerChannel, den |-> 1,
   colors |-> [i \in 1..n |->
                 IF dup /\ i = n THEN BaseColor(0, bitsPerChannel)
                 ELSE BaseColor(i - 1, bitsPerChannel)]]

\* a colour no palette of the model contains
AlienColor == <<1, 2, 3, 4>>

\* colour index of pixel i (0..7) of the 8-pixel pattern `kind`, over m indices
TileIndex(kind, i, m) == (kind * i + (i \div 3) + kind) % m

\* the ImageData of width by height pixels whose k-th group of 8 pixels
\* follows pattern 1 + (seed + k) % MaxTile, or for seed 0 the image of
\* the single index m - 1; index Len(pal) stands for AlienColor
Image(width, height, seed, pal, m) ==
  [width |-> width, height |-> height,
   data |-> [i \in 1..(width * height) |->
               LET kind == 1 + ((seed + ((i - 1) \div 8)) % MaxTile)
                   idx == IF seed = 0 THEN m - 1 ELSE TileIndex(kind, (i - 1) % 8, m)
               IN IF idx < Len(pal) THEN pal[idx + 1] ELSE AlienColor]]

\* widths of the images of the model: one that encode rejects, one that it accepts
ImageWidths == {8, 16}

Formats == {ENCODING_FORMAT_CONTIGUOUS, ENCODING_FORMAT_LINE, ENCODING_FORMAT_WORD}

NoCall == [op |-> "none", error |-> "none", from |-> "none", cut |-> 0, dest |-> <<>>]

NoImage == [width |-> 0, height |-> 0, data |-> <<>>]

\* the packbits variables while nothing was packed
NoPack ==
  /\ planeData = <<>>
  /\ planeLength = 0
  /\ compressedData = <<>>
  /\ outputBuffer = <<>>

\* the IFF variables while no IFF data is handled
NoIff ==
  /\ reader = [byteOffset |-> 0, byteLength |-> 0, pos |-> 0, error |-> "none"]
  /\ chunks = <<>>
  /\ made = [by |-> "none"]
  /\ meta = [encoding |-> "none"]

\* the writer and the HAM reader while none was made
NoTools ==
  /\ writer = [error |-> "none"]
  /\ ham = [error |-> "none"]
  /\ resampled = [error |-> "none"]

NoReader == [pos |-> 0, palette |-> <<>>, index |-> 0 - 1, error |-> "none", color |-> <<>>]

InitCodec ==
  \E width \in ImageWidths, height \in 1..MaxHeight, seed \in 1..MaxTile,
     n \in 1..MaxColors, bitsPerChannel \in {4, 8}, dup \in BOOLEAN, alien \in BOOLEAN,
     format \in Formats, extra \in 0..1 :
      LET p == Palette(n, bitsPerChannel, dup)
          pal == toValueArray(resample(p, 8))
      IN /\ palette = p
         /\ imageData = Image(width, height, seed, pal, IF alien THEN n + 1 ELSE n)
         /\ options = IF extra = 0 THEN [format |-> format]
                      ELSE [format |-> format,
                            planes |-> getPlaneCountForIndexedPalette(p) + extra]
         /\ buffer = <<>>
         /\ decoded = NoImage
         /\ pc = NoCall
         /\ ipr = NoReader
         /\ NoPack
         /\ NoIff
         /\ NoTools

\* buffer = encode(imageData, palette, options)
Encode ==
  /\ pc.op = "none"
  /\ LET r == encode(imageData, palette, options)
     IN /\ buffer' = r.buffer
        /\ pc' = [NoCall EXCEPT !.op = "encode", !.error = r.error]
  /\ UNCHANGED <<imageData, palette, options, decoded, ipr, packVars, iffVars, toolVars>>

\* encodeToBuffer(dest, imageData, palette, options) for a caller's buffer dest
EncodeToBuffer ==
  /\ pc.op = "none"
  /\ \E short \in 0..1, fill \in {0, 255} :
       LET size == (imageData.width * imageData.height * OptPlanes(options, palette)) \div 8
           dest == [i \in 1..(size - short) |-> fill]
           r == encodeToBuffer(dest, imageData, palette, options)
       IN /\ size - short >= 0
          /\ buffer' = r.buffer
          /\ pc' = [NoCall EXCEPT !.op = "encodeToBuffer", !.error = r.error, !.dest = dest]
  /\ UNCHANGED <<imageData, palette, options, decoded, ipr, packVars, iffVars, toolVars>>

\* decoded = decode(buffer, width, height, palette, options), for the buffer
\* an encoder produced or for that buffer without its last cut bytes
Decode ==
  /\ pc.op \in {"encode", "encodeToBuffer"}
  /\ pc.error = "none"
  /\ \E cut \in 0..1 :
       /\ Len(buffer) >= cut
       /\ LET r == decode(SubSeq(buffer, 1, Len(buffer) - cut),
                          imageData.width, imageData.height, palette, options)
          IN /\ decoded' = r.imageData
             /\ pc' = [NoCall EXCEPT !.op = "decode", !.error = r.error,
                                     !.from = pc.op, !.cut = cut]
  /\ UNCHANGED <<imageData, palette, options, buffer, ipr, packVars, iffVars, toolVars>>

NextCodec == Encode \/ EncodeToBuffer \/ Decode

SpecCodec == InitCodec /\ [][NextCodec]_vars

----------------------------------------------------------------------------
(* Properties of the bit-plane codec, checked under SpecCodec *)

\* every pixel of imageData is a value of the 8-bit palette
AllInPalette ==
  LET pal == toValueArray(resample(palette, 8))
  IN \A i \in 1..Len(imageData.data) : IndexOf(pal, imageData.data[i]) >= 0

\* C1: for an image whose width is a multiple of 16 and whose pixels are all
\* palette colours, encode succeeds for each layout and each plane count from
\* the palette length upwards, and decode of the encoded buffer with the
\* same width, height, palette and options returns the image pixel for pixel.
C1_RoundTrip ==
  /\ (pc.op = "encode" /\ imageData.width % 16 = 0 /\ AllInPalette) => pc.error = "none"
  /\ (pc.op = "decode" /\ pc.from = "encode" /\ pc.cut = 0)
       => (pc.error = "none" /\ decoded = imageData)

C1_Witness ==
  /\ pc.op = "decode" /\ pc.from = "encode" /\ pc.cut = 0
  /\ decoded = imageData
  /\ imageData.height = MaxHeight
  /\ Len(palette.colors) = MaxColors
  /\ "planes" \in DOMAIN options
  /\ options.format = ENCODING_FORMAT_WORD
  /\ \E i, j \in 1..Len(imageData.data) : imageData.data[i] # imageData.data[j]

\* C4: decoding a buffer that is one byte shorter than the encoded planes
\* ends with an out-of-range error instead of returning pixels.
C4_ShortBufferRaises ==
  (pc.op = "decode" /\ pc.cut = 1) => pc.error = "RangeError"

\* C6: when the width is not a multiple of 16 or the destination is shorter
\* than width / 8 * height * planes bytes, encodeToBuffer ends with an error
\* and every byte of the destination is as it was before the call.
C6_RejectedBeforeWrite ==
  (/\ pc.op = "encodeToBuffer"
   /\ \/ imageData.width % 16 # 0
      \/ 8 * Len(pc.dest) < imageData.width * imageData.height * OptPlanes(options, palette))
    => (pc.error = "PlanarCoderError" /\ buffer = pc.dest)

C6_Witness ==
  /\ pc.op = "encodeToBuffer"
  /\ imageData.width % 16 = 0
  /\ Len(pc.dest) > 0
  /\ 8 * Len(pc.dest) < imageData.width * imageData.height * OptPlanes(options, palette)
  /\ pc.error = "PlanarCoderError"
  /\ buffer = pc.dest
  /\ \A i \in 1..Len(pc.dest) : pc.dest[i] = 0

----------------------------------------------------------------------------
(* The pixel reader used on its own: read / advance / setPalette            *)

\* widest skip of one advance call in the model
MaxSkip == 2

InitReader ==
  \E height \in 1..MaxHeight, seed \in 1..MaxTile, n \in 1..MaxColors,
     bitsPerChannel \in {4, 8}, dup \in BOOLEAN, alien \in BOOLEAN :
      LET p == Palette(n, bitsPerChannel, dup)
          pal == toValueArray(resample(p, 8))
      IN /\ palette = p
         /\ imageData = Image(8, height, seed, pal, IF alien THEN n + 1 ELSE n)
         /\ ipr = ImageDataIndexedPaletteReader(p)
         /\ options = [format |-> ENCODING_FORMAT_WORD]
         /\ buffer = <<>>
         /\ decoded = NoImage
         /\ pc = NoCall
         /\ NoPack
         /\ NoIff
         /\ NoTools

\* reader.read()
ReaderRead ==
  /\ ipr' = IPR_read(imageData, ipr)
  /\ pc' = [NoCall EXCEPT !.op = "read", !.error = ipr'.error]
  /\ UNCHANGED <<imageData, palette, options, buffer, decoded, packVars, iffVars, toolVars>>

\* reader.advance(pixels), within the image
ReaderAdvance ==
  /\ \E pixels \in 1..MaxSkip :
       /\ ipr.pos + 4 * pixels <= 4 * Len(imageData.data)
       /\ ipr' = IPR_advance(ipr, pixels)
  /\ pc' = [NoCall EXCEPT !.op = "advance"]
  /\ UNCHANGED <<imageData, palette, options, buffer, decoded, packVars, iffVars, toolVars>>

\* reader.setPalette(p) for another palette of the model
ReaderSetPalette ==
  /\ \E n \in 1..MaxColors, dup \in BOOLEAN :
       /\ palette' = Palette(n, palette.bitsPerChannel, dup)
       /\ palette' # palette
       /\ ipr' = IPR_setPalette(ipr, palette')
  /\ pc' = [NoCall EXCEPT !.op = "setPalette"]
  /\ UNCHANGED <<imageData, options, buffer, decoded, packVars, iffVars, toolVars>>

NextReader == ReaderRead \/ ReaderAdvance \/ ReaderSetPalette

SpecReader == InitReader /\ [][NextReader]_vars

\* C5: a read() of a pixel returns an index whose 8-bit palette value is
\* the pixel's RGBA value exactly and moves on by one pixel; when no palette
\* value equals the pixel, it throws a RangeError that carries the colour
\* and leaves the position where it was.
C5_ExactOrRangeError ==
  [][(pc'.op = "read" /\ ~IPR_eof(imageData, ipr)) =>
       LET color == imageData.data[(ipr.pos \div 4) + 1]
       IN IF \E i \in 1..Len(ipr.palette) : ipr.palette[i] = color
            THEN /\ ipr'.error = "none"
                 /\ ipr'.index \in 0..(Len(ipr.palette) - 1)
                 /\ ipr.palette[ipr'.index + 1] = color
                 /\ ipr'.pos = ipr.pos + 4
            ELSE /\ ipr'.error = "RangeError"
                 /\ ipr'.color = color
                 /\ ipr'.pos = ipr.pos]_vars

\* a read that threw on a colour the palette lacks, after earlier reads
C5_Witness ==
  /\ pc.op = "read"
  /\ ipr.error = "RangeError"
  /\ ipr.color = AlienColor
  /\ ipr.pos > 0
  /\ ~IPR_eof(imageData, ipr)
  /\ Len(ipr.palette) > 1

----------------------------------------------------------------------------
(* decode of planes stored with lines of whole 16-bit words, for widths    *)
(* that are and are not multiples of 16  (src/decode.js)                   *)

\* the widths given to decode
DecodeWidths == {8, 12, 16, 24}

\* buffer holds the planes of imageData, an image of ceil(width / 16) * 16
\* pixels a line, as encode lays them out; options holds the format and
\* the width to decode
InitStored ==
  /\ \E height \in 1..MaxHeight, seed \in 1..MaxTile, n \in 2..MaxColors, width \in DecodeWidths :
       /\ palette = Palette(n, 8, FALSE)
       /\ imageData = Image(CeilDiv(width, 16) * 16, height, seed, toValueArray(palette), n)
       /\ \E format \in Formats : options = [format |-> format, width |-> width]
  /\ buffer = encode(imageData, palette, [format |-> options.format]).buffer
  /\ decoded = NoImage
  /\ ipr = NoReader
  /\ pc = NoCall
  /\ NoPack
  /\ NoIff
  /\ NoTools

\* decoded = decode(buffer, width, height, palette, { format })
DecodeStored ==
  /\ pc.op = "none"
  /\ LET r == decode(buffer, options.width, imageData.height, palette,
                     [format |-> options.format])
     IN /\ decoded' = r.imageData
        /\ pc' = [NoCall EXCEPT !.op = "decode", !.error = r.error]
  /\ UNCHANGED <<imageData, palette, options, buffer, ipr, packVars, iffVars, toolVars>>

NextStored == DecodeStored

SpecStored == InitStored /\ [][NextStored]_vars

\* C28: decode takes every stored scanline to be ceil(width / 16) * 16
\* pixels wide, for every width: pixel x of scanline y comes from the bytes
\* of a scanline that starts ceil(width / 16) * 2 bytes per plane after
\* scanline y - 1, in the contiguous, the line and the word layout
C28_StoredLineWidth ==
  pc.op = "decode" =>
    LET width == options.width
        height == imageData.height
        planes == getPlaneCountForIndexedPalette(palette)
        stride == CeilDiv(width, 16) * 2
        Offset(x, y, p) ==
          IF options.format = ENCODING_FORMAT_CONTIGUOUS
            THEN p * stride * height + y * stride + (x \div 8)
          ELSE IF options.format = ENCODING_FORMAT_LINE
            THEN (y * planes + p) * stride + (x \div 8)
          ELSE ((y * (stride \div 2) + (x \div 16)) * planes + p) * 2 + ((x % 16) \div 8)
        Bit(x, y, p) == IF p >= planes THEN 0
                        ELSE (buffer[Offset(x, y, p) + 1] \div (2^(7 - (x % 8)))) % 2
        Index(x, y) == Bit(x, y, 0) + 2 * Bit(x, y, 1) + 4 * Bit(x, y, 2) + 8 * Bit(x, y, 3)
    IN /\ pc.error = "none"
       /\ decoded.width = width
       /\ decoded.height = height
       /\ Len(decoded.data) = width * height
       /\ \A y \in 0..(height - 1), x \in 0..(width - 1) :
            decoded.data[y * width + x + 1] = toValueArray(palette)[Index(x, y) + 1]

----------------------------------------------------------------------------
(* read() and advance() called on a BitplaneReader over the planes of an   *)
(* image  (src/lib/BitplaneReader.js)                                      *)

\* the position of the cursor counted in pixels: bit fastest, then byte,
\* then block, then line
LinearPosition(rd) ==
  ((rd.line * rd.blocksPerLine + rd.block) * rd.bytesPerBlock + rd.byte) * 8 + rd.bit

\* reader is the BitplaneReader over buffer, the planes of imageData in the
\* layout of options.format; made counts the pixels consumed so far and
\* those of them that advance() skipped
InitBitplane ==
  /\ \E height \in 1..MaxHeight, seed \in 1..MaxTile, n \in 2..MaxColors :
       /\ palette = Palette(n, 8, FALSE)
       /\ imageData = Image(16, height, seed, toValueArray(palette), n)
  /\ options \in [format : Formats]
  /\ buffer = encode(imageData, palette, options).buffer
  /\ reader = IF options.format = ENCODING_FORMAT_CONTIGUOUS
                THEN BitplaneReader_contiguous(getPlaneCountForIndexedPalette(palette), 16,
                                               imageData.height)
              ELSE IF options.format = ENCODING_FORMAT_LINE
                THEN BitplaneReader_line(getPlaneCountForIndexedPalette(palette), 16)
              ELSE BitplaneReader_word(getPlaneCountForIndexedPalette(palette))
  /\ made = [consumed |-> 0, skipped |-> 0]
  /\ chunks = <<>>
  /\ meta = [encoding |-> "none"]
  /\ decoded = NoImage
  /\ ipr = NoReader
  /\ pc = NoCall
  /\ NoPack
  /\ NoTools

\* reader.read() of a pixel of the image; pc.cut is the value returned
BitplaneRead ==
  /\ made.consumed < Len(imageData.data)
  /\ LET r == BitplaneReader_read(buffer, reader)
     IN /\ reader' = r.rd
        /\ pc' = [NoCall EXCEPT !.op = "read", !.cut = r.color]
  /\ made' = [made EXCEPT !.consumed = @ + 1]
  /\ UNCHANGED <<codecVars, chunks, meta, packVars, toolVars>>

\* reader.advance(pixels), within the image; pc.cut is pixels
BitplaneAdvance ==
  /\ \E pixels \in 1..MaxSkip :
       /\ made.consumed + pixels <= Len(imageData.data)
       /\ reader' = BitplaneReader_advance(reader, pixels)
       /\ made' = [consumed |-> made.consumed + pixels, skipped |-> made.skipped + pixels]
       /\ pc' = [NoCall EXCEPT !.op = "advance", !.cut = pixels]
  /\ UNCHANGED <<codecVars, chunks, meta, packVars, toolVars>>

NextBitplane == BitplaneRead \/ BitplaneAdvance

SpecBitplane == InitBitplane /\ [][NextBitplane]_vars

C27_CursorAndReads ==
  [][/\ (pc'.op = "read" \/ pc'.op = "advance")
          => LinearPosition(reader') = LinearPosition(reader) + (made'.consumed - made.consumed)
     /\ pc'.op = "read"
          => /\ pc'.cut \in 0..(Len(palette.colors) - 1)
             /\ toValueArray(palette)[pc'.cut + 1] = imageData.data[made.consumed + 1]]_vars

----------------------------------------------------------------------------
(* packbits  (src/compression/packbits.js)                                  *)

RAW_DATA == 0

RUN == 1

MIN_RUN_LENGTH == 3

MAX_RUN_LENGTH == 128

MAX_DATA_LENGTH == 128

\* DataView.getInt8 of a byte
Int8(b) == IF b >= 128 THEN b - 256 ELSE b

\* typedArray[offset] = value: stored modulo 256, dropped outside the array
Store(arr, offset, value) ==
  IF offset >= 0 /\ offset < Len(arr) THEN [arr EXCEPT ![offset + 1] = value % 256] ELSE arr

\* typedArray.set(bytes, offset): a RangeError when the bytes do not fit
SetBytes(arr, bytes, offset) ==
  IF offset + Len(bytes) > Len(arr)
    THEN [error |-> "RangeError", arr |-> arr]
    ELSE [error |-> "none",
          arr |-> [i \in 1..Len(arr) |->
                     IF i > offset /\ i <= offset + Len(bytes) THEN bytes[i - offset] ELSE arr[i]]]

\* PutDump(count) of packLine
PutDump(st, count) ==
  LET d1 == Store(st.dest, st.destPos, count - 1)
      d2 == SetBytes(d1, SubSeq(st.cmdBuffer, 1, count), st.destPos + 1)
  IN [st EXCEPT !.dest = d2.arr, !.destPos = @ + 1 + count, !.error = d2.error]

\* PutRun(count, byte) of packLine
PutRun(st, count, byte) ==
  [st EXCEPT !.dest = Store(Store(@, st.destPos, 256 - (count - 1)), st.destPos + 1, byte),
             !.destPos = @ + 2]

\* the variables of packLine when its loop is entered, the first byte of
\* the line taken
PackStart(source, dest) ==
  [srcPos |-> 1, destPos |-> 0, mode |-> RAW_DATA, cmdBufferPos |-> 1,
   rstart |-> 0, rowSize |-> Len(source) - 1, lastByte |-> source[1],
   cmdBuffer |-> Store(Zeros(MAX_DATA_LENGTH), 0, source[1]),
   dest |-> dest, error |-> "none", broken |-> FALSE]

\* a turn of the loop that leaves RAW_DATA for RUN only after three equal bytes
PackTurn_three(source, st) ==
  LET byte == source[st.srcPos + 1]
      cmdBufferPos == st.cmdBufferPos + 1
      s1 == [st EXCEPT !.rowSize = @ - 1, !.srcPos = @ + 1,
                       !.cmdBuffer = Store(@, st.cmdBufferPos, byte),
                       !.cmdBufferPos = cmdBufferPos]
  IN IF st.mode = RAW_DATA
       THEN IF cmdBufferPos > MAX_DATA_LENGTH
              THEN [PutDump(s1, cmdBufferPos - 1) EXCEPT
                      !.cmdBuffer = Store(@, 0, byte), !.cmdBufferPos = 1,
                      !.rstart = 0, !.broken = TRUE]
            ELSE IF byte = st.lastByte
              THEN IF cmdBufferPos - st.rstart >= MIN_RUN_LENGTH
                     THEN [(IF st.rstart > 0 THEN PutDump(s1, st.rstart) ELSE s1) EXCEPT
                             !.mode = RUN, !.lastByte = byte]
                   ELSE [s1 EXCEPT !.lastByte = byte]
            ELSE [s1 EXCEPT !.rstart = cmdBufferPos - 1, !.lastByte = byte]
       ELSE IF byte # st.lastByte \/ cmdBufferPos - st.rstart > MAX_RUN_LENGTH
              THEN [PutRun(s1, cmdBufferPos - 1 - st.rstart, st.lastByte) EXCEPT
                      !.cmdBuffer = Store(@, 0, byte), !.cmdBufferPos = 1,
                      !.rstart = 0, !.mode = RAW_DATA, !.lastByte = byte]
            ELSE [s1 EXCEPT !.lastByte = byte]

\* one turn of the while (rowSize) loop of packLine
PackTurn(source, st) ==
  LET byte == source[st.srcPos + 1]
      cmdBufferPos == st.cmdBufferPos + 1
      s1 == [st EXCEPT !.rowSize = @ - 1, !.srcPos = @ + 1,
                       !.cmdBuffer = Store(@, st.cmdBufferPos, byte),
                       !.cmdBufferPos = cmdBufferPos]
  IN IF st.mode = RAW_DATA
       THEN IF cmdBufferPos > MAX_DATA_LENGTH
              THEN \* PutDump, restart the command buffer, and `break`
                   [PutDump(s1, cmdBufferPos - 1) EXCEPT
                      !.cmdBuffer = Store(@, 0, byte), !.cmdBufferPos = 1,
                      !.rstart = 0, !.broken = TRUE]
            ELSE IF byte = st.lastByte
              THEN IF cmdBufferPos - st.rstart >= MIN_RUN_LENGTH
                     THEN [(IF st.rstart > 0 THEN PutDump(s1, st.rstart) ELSE s1) EXCEPT
                             !.mode = RUN, !.lastByte = byte]
                   ELSE IF st.rstart = 0
                     THEN [s1 EXCEPT !.mode = RUN, !.lastByte = byte]
                   ELSE [s1 EXCEPT !.lastByte = byte]
            ELSE [s1 EXCEPT !.rstart = cmdBufferPos - 1, !.lastByte = byte]
       ELSE IF byte # st.lastByte \/ cmdBufferPos - st.rstart > MAX_RUN_LENGTH
              THEN [PutRun(s1, cmdBufferPos - 1 - st.rstart, st.lastByte) EXCEPT
                      !.cmdBuffer = Store(@, 0, byte), !.cmdBufferPos = 1,
                      !.rstart = 0, !.mode = RAW_DATA, !.lastByte = byte]
            ELSE [s1 EXCEPT !.lastByte = byte]

RECURSIVE PackTurns(_, _, _)
\* at most k turns of the loop of packLine; `break` or a throw ends the loop
\* (the turns are evaluated as two halves, the second from the first's result)
PackTurns(source, st, k) ==
  IF k = 0 \/ st.rowSize = 0 \/ st.broken \/ st.error # "none" THEN st
  ELSE IF k = 1 THEN PackTurn(source, st)
  ELSE PackTurns(source, PackTurns(source, st, k \div 2), k - (k \div 2))

\* packLine(source, dest): the state after the final PutDump / PutRun;
\* destPos is the length returned
packLine(source, dest) ==
  LET Finish(st) == IF st.error # "none" THEN st
                    ELSE IF st.mode = RAW_DATA THEN PutDump(st, st.cmdBufferPos)
                    ELSE PutRun(st, st.cmdBufferPos - st.rstart, st.lastByte)
  IN Finish(PackTurns(source, PackStart(source, dest), Len(source)))

\* one turn of the loop of pack over the lines
PackLineStep(data, lineBytes, st) ==
  LET Put(l) ==
        IF l.error # "none" THEN [st EXCEPT !.error = l.error]
        ELSE LET c == SetBytes(st.compressedData,
                               SubSeq(l.dest, 1, Min(l.destPos, Len(l.dest))), st.pos)
             IN [srcPos |-> st.srcPos + lineBytes, pos |-> st.pos + l.destPos,
                 packedLineBuffer |-> l.dest, compressedData |-> c.arr, error |-> c.error]
  IN Put(packLine(SubSeq(data, st.srcPos + 1, Min(st.srcPos + lineBytes, Len(data))),
                  st.packedLineBuffer))

RECURSIVE PackLines(_, _, _)
\* for (let srcPos = 0; srcPos < planeData.byteLength; srcPos += planeLength)
PackLines(data, lineBytes, st) ==
  IF st.srcPos >= Len(data) \/ st.error # "none" THEN st
  ELSE PackLines(data, lineBytes, PackLineStep(data, lineBytes, st))

\* pack(planeData, bytesPerLine): [error, data |-> the bytes returned]
pack(data, lineBytes) ==
  LET Result(st) == IF st.error # "none" THEN [error |-> st.error, data |-> <<>>]
                    ELSE [error |-> "none", data |-> SubSeq(st.compressedData, 1, st.pos)]
  IN Result(PackLines(data, lineBytes,
              [srcPos |-> 0, pos |-> 0, packedLineBuffer |-> Zeros(lineBytes * 2),
               compressedData |-> Zeros(Len(data)), error |-> "none"]))

\* one command of a depack that drops the bytes of a command past size
DepackStep_clamped(src, size, st) ==
  IF st.srcPos >= Len(src) THEN [st EXCEPT !.error = "RangeError"]
  ELSE LET byte == Int8(src[st.srcPos + 1])
           room == size - Len(st.out)
       IN IF byte = 0 - 128 THEN [st EXCEPT !.srcPos = @ + 1]
          ELSE IF byte < 0
            THEN IF st.srcPos + 1 >= Len(src) THEN [st EXCEPT !.error = "RangeError"]
                 ELSE [st EXCEPT !.srcPos = @ + 2,
                                 !.out = @ \o [c \in 1..Min(1 - byte, room) |-> src[st.srcPos + 2]]]
          ELSE IF st.srcPos + 1 + (1 + byte) > Len(src) THEN [st EXCEPT !.error = "RangeError"]
               ELSE [st EXCEPT !.srcPos = @ + 2 + byte,
                               !.out = @ \o SubSeq(src, st.srcPos + 2,
                                                   st.srcPos + 1 + Min(1 + byte, room))]

\* one command of depack: a no-op, a repeated byte or literal bytes.
\* getInt8 / getUint8 / setUint8 outside their view throw a RangeError.
DepackStep(src, size, st) ==
  IF st.srcPos >= Len(src) THEN [st EXCEPT !.error = "RangeError"]
  ELSE LET byte == Int8(src[st.srcPos + 1])
       IN IF byte = 0 - 128 THEN [st EXCEPT !.srcPos = @ + 1]
          ELSE IF byte < 0
            THEN IF st.srcPos + 1 >= Len(src) \/ Len(st.out) + (1 - byte) > size
                   THEN [st EXCEPT !.error = "RangeError"]
                   ELSE [st EXCEPT !.srcPos = @ + 2,
                                   !.out = @ \o [c \in 1..(1 - byte) |-> src[st.srcPos + 2]]]
          ELSE IF st.srcPos + 1 + (1 + byte) > Len(src) \/ Len(st.out) + (1 + byte) > size
                 THEN [st EXCEPT !.error = "RangeError"]
                 ELSE [st EXCEPT !.srcPos = @ + 2 + byte,
                                 !.out = @ \o SubSeq(src, st.srcPos + 2, st.srcPos + 2 + byte)]

RECURSIVE DepackTurns(_, _, _, _)
\* at most k turns of while (destPos < size)
\* (the turns are evaluated as two halves, the second from the first's result)
DepackTurns(src, size, st, k) ==
  IF k = 0 \/ Len(st.out) >= size \/ st.error # "none" THEN st
  ELSE IF k = 1 THEN DepackStep(src, size, st)
  ELSE DepackTurns(src, size, DepackTurns(src, size, st, k \div 2), k - (k \div 2))

\* depack(buffer, size): [error, data |-> the bytes returned, srcPos |-> the
\* number of source bytes read]
depack(src, size) ==
  LET Result(st) == IF st.error # "none"
                      THEN [error |-> st.error, data |-> <<>>, srcPos |-> st.srcPos]
                      ELSE [error |-> "none", data |-> st.out, srcPos |-> st.srcPos]
  IN Result(DepackTurns(src, size, [srcPos |-> 0, out |-> <<>>, error |-> "none"],
                        Len(src) + size + 1))

----------------------------------------------------------------------------
(* pack and depack called on byte sequences *)

\* short inputs: every sequence of 1..MaxLen bytes over PackBytes
MaxLen == 4

PackBytes == {7, 200}

\* lengths of the long inputs, on both sides of MAX_DATA_LENGTH
LongLengths == {MAX_DATA_LENGTH, MAX_DATA_LENGTH + 2, MAX_DATA_LENGTH + 12}

\* long inputs: 1 no two neighbours equal, 2 all bytes equal,
\* 3 no two neighbours equal up to MAX_DATA_LENGTH + 1 bytes, then all equal
LongData(kind, len) ==
  [i \in 1..len |->
     IF kind = 2 \/ (kind = 3 /\ i > MAX_DATA_LENGTH + 1) THEN 7
     ELSE IF i % 2 = 0 THEN 200 ELSE 9]

RECURSIVE SeqsOver(_, _)
\* the sequences of length n over the set S
SeqsOver(S, n) ==
  IF n = 0 THEN {<<>>} ELSE {Append(q, b) : q \in SeqsOver(S, n - 1), b \in S}

\* the codec variables while only packbits is used
NoCodec ==
  /\ imageData = NoImage
  /\ palette = Palette(1, 8, FALSE)
  /\ options = [format |-> ENCODING_FORMAT_WORD]
  /\ buffer = <<>>
  /\ decoded = NoImage
  /\ ipr = NoReader

InitPack ==
  /\ \/ \E n \in 1..MaxLen :
          /\ planeData \in SeqsOver(PackBytes, n)
          /\ planeLength \in 1..MaxLen
     \/ \E kind \in 1..3, len \in LongLengths :
          /\ planeData = LongData(kind, len)
          /\ planeLength \in {len, len \div 2}
  /\ compressedData = <<>>
  /\ outputBuffer = <<>>
  /\ pc = NoCall
  /\ NoCodec
  /\ NoIff
  /\ NoTools

\* compressedData = pack(planeData, bytesPerLine)
Pack ==
  /\ pc.op = "none"
  /\ LET r == pack(planeData, planeLength)
     IN /\ compressedData' = r.data
        /\ pc' = [NoCall EXCEPT !.op = "pack", !.error = r.error]
  /\ UNCHANGED <<planeData, planeLength, outputBuffer, codecVars, iffVars, toolVars>>

\* outputBuffer = depack(compressedData, planeData.length)
Depack ==
  /\ pc.op = "pack"
  /\ pc.error = "none"
  /\ LET r == depack(compressedData, Len(planeData))
     IN /\ outputBuffer' = r.data
        /\ pc' = [NoCall EXCEPT !.op = "depack", !.error = r.error]
  /\ UNCHANGED <<planeData, planeLength, compressedData, codecVars, iffVars, toolVars>>

NextPack == Pack \/ Depack

SpecPack == InitPack /\ [][NextPack]_vars

\* C2: for every non-empty byte sequence and every bytesPerLine > 0, pack
\* completes without error, and depack of its result to the length of the
\* input returns the input byte for byte.
C2_PackRoundTrip ==
  /\ pc.op = "pack" => pc.error = "none"
  /\ pc.op = "depack" => (pc.error = "none" /\ outputBuffer = planeData)

\* packLine, one turn of its loop at a time

MaxLine == 5

\* planeData is the line, made the variables of packLine when the loop is
\* entered
InitPackLine ==
  /\ \E n \in 1..MaxLine : planeData \in SeqsOver(PackBytes, n)
  /\ planeLength = Len(planeData)
  /\ made = PackStart(planeData, Zeros(planeLength * 2))
  /\ compressedData = <<>>
  /\ outputBuffer = <<>>
  /\ reader = [pos |-> 0, error |-> "none", byteOffset |-> 0, byteLength |-> 0]
  /\ chunks = <<>>
  /\ meta = [encoding |-> "none"]
  /\ pc = NoCall
  /\ NoCodec
  /\ NoTools

\* one turn of the while (rowSize) loop; pc.cut is the number of bytes of
\* the line taken before it
PackLineTurn ==
  /\ pc.op \in {"none", "turn"}
  /\ made.rowSize > 0
  /\ ~made.broken
  /\ made' = PackTurn(planeData, made)
  /\ pc' = [NoCall EXCEPT !.op = "turn", !.cut = made.srcPos]
  /\ UNCHANGED <<planeData, planeLength, compressedData, outputBuffer, codecVars,
                 reader, chunks, meta, toolVars>>

\* the end of packLine: the rest of the command buffer is put and the
\* packed bytes are returned
PackLineReturn ==
  /\ pc.op \in {"none", "turn"}
  /\ made.rowSize = 0 \/ made.broken
  /\ LET l == packLine(planeData, Zeros(planeLength * 2))
     IN /\ compressedData' = SubSeq(l.dest, 1, Min(l.destPos, Len(l.dest)))
        /\ pc' = [NoCall EXCEPT !.op = "packLine", !.error = l.error]
  /\ UNCHANGED <<planeData, planeLength, outputBuffer, codecVars, reader, chunks, made, meta,
                 toolVars>>

NextPackLine == PackLineTurn \/ PackLineReturn

SpecPackLine == InitPackLine /\ [][NextPackLine]_vars

RECURSIVE LineByLine(_, _, _)
\* a decoder that expands the stream one line of lineBytes bytes at a time:
\* TRUE when each of the lines is filled exactly by whole commands and the
\* stream ends with the last of them
LineByLine(src, lineBytes, lines) ==
  LET Rest(d) == d.error = "none"
                   /\ LineByLine(SubSeq(src, d.srcPos + 1, Len(src)), lineBytes, lines - 1)
  IN IF lines = 0 THEN src = <<>> ELSE Rest(depack(src, lineBytes))

\* C22: no command in the output of pack(data, bytesPerLine), for data of
\* whole lines, crosses a line boundary: expanded one line at a time, the
\* stream gives for each line whole commands that produce exactly
\* bytesPerLine bytes
C22_NoCommandCrossesLine ==
  (pc.op = "pack" /\ pc.error = "none" /\ Len(planeData) % planeLength = 0)
    => LineByLine(compressedData, planeLength, Len(planeData) \div planeLength)

----------------------------------------------------------------------------
(* depack called on command streams *)

MaxCmds == 3          \* commands of a stream
MaxOut == 4           \* the short output sizes asked for

\* the commands of the streams: [n |-> the signed control byte, data |-> the
\* bytes after it]: a skip, runs of 2, 3 and 128 bytes, copies of 1 and 2 bytes
DepackCommands ==
  {[n |-> 0 - 128, data |-> <<>>], [n |-> 0 - 1, data |-> <<7>>], [n |-> 0 - 2, data |-> <<200>>],
   [n |-> 0 - 127, data |-> <<9>>], [n |-> 0, data |-> <<5>>], [n |-> 1, data |-> <<200, 7>>]}

RECURSIVE Flatten(_)
\* the sequences of a sequence, one after the other
Flatten(seqs) == IF seqs = <<>> THEN <<>> ELSE seqs[1] \o Flatten(Tail(seqs))

\* the bytes of the commands in a stream
CommandBytes(cmds) ==
  Flatten([i \in 1..Len(cmds) |-> <<(cmds[i].n + 256) % 256>> \o cmds[i].data])

\* options holds the commands of the stream, planeLength the size asked for
InitDepack ==
  /\ \E k \in 1..MaxCmds : options \in [1..k -> DepackCommands]
  /\ planeLength \in 0..MaxOut \cup {MAX_RUN_LENGTH}
  /\ compressedData = CommandBytes(options)
  /\ planeData = <<>>
  /\ outputBuffer = <<>>
  /\ imageData = NoImage
  /\ palette = Palette(1, 8, FALSE)
  /\ buffer = <<>>
  /\ decoded = NoImage
  /\ ipr = NoReader
  /\ pc = NoCall
  /\ NoIff
  /\ NoTools

\* outputBuffer = depack(compressedData, planeLength); pc.cut is srcPos afterwards
DepackStream ==
  /\ pc.op = "none"
  /\ LET r == depack(compressedData, planeLength)
     IN /\ outputBuffer' = r.data
        /\ pc' = [NoCall EXCEPT !.op = "depack", !.error = r.error, !.cut = r.srcPos]
  /\ UNCHANGED <<planeData, planeLength, compressedData, codecVars, iffVars, toolVars>>

NextDepack == DepackStream

SpecDepack == InitDepack /\ [][NextDepack]_vars

\* C21: depack takes control byte -128 as a skip, any other n < 0 as the
\* next byte 1 - n times and n >= 0 as the next 1 + n bytes.  It returns
\* when the commands of the shortest prefix of the stream that expands to
\* outSize bytes expand to exactly outSize bytes: the result is that
\* expansion and only the bytes of those commands were read.  Otherwise (a
\* command writes past outSize, or the stream ends first) it raises an error
C21_DepackExact ==
  pc.op = "depack"
    => LET Expansion(c) == IF c.n = 0 - 128 THEN <<>>
                           ELSE IF c.n < 0 THEN [i \in 1..(1 - c.n) |-> c.data[1]]
                           ELSE c.data
           Out(j) == Flatten([i \in 1..j |-> Expansion(options[i])])
           reach == {j \in 0..Len(options) : Len(Out(j)) >= planeLength}
           Checked(j) == IF Len(Out(j)) = planeLength
                           THEN /\ pc.error = "none"
                                /\ outputBuffer = Out(j)
                                /\ Len(outputBuffer) = planeLength
                                /\ pc.cut = Len(CommandBytes(SubSeq(options, 1, j)))
                           ELSE pc.error = "RangeError"
       IN IF reach = {} THEN pc.error = "RangeError"
          ELSE Checked(CHOOSE j \in reach : \A i \in reach : j <= i)

\* depack returned the 3 bytes of a run that follows a skip, and left the
\* command after the run unread
C21_Witness ==
  /\ pc.op = "depack"
  /\ pc.error = "none"
  /\ Len(options) = 3
  /\ options[1].n = 0 - 128
  /\ options[2].n = 0 - 2
  /\ outputBuffer = <<200, 200, 200>>
  /\ pc.cut = 3
  /\ pc.cut < Len(compressedData)

----------------------------------------------------------------------------
(* IffChunkReader  (src/formats/iff/IffChunkReader.js)                      *)
(*                                                                         *)
(* A string is the sequence of its character codes.  A reader is           *)
(* [byteOffset, byteLength, pos, error]: a DataView of byteLength bytes at  *)
(* byteOffset of the buffer, and #pos inside that view.                     *)

IFF_CHUNK_ID_FORM == <<70, 79, 82, 77>>

IFF_CHUNK_ID_ILBM == <<73, 76, 66, 77>>

IFF_CHUNK_ID_ACBM == <<65, 67, 66, 77>>

IFF_CHUNK_ID_BMHD == <<66, 77, 72, 68>>

IFF_CHUNK_ID_CAMG == <<67, 65, 77, 71>>

IFF_CHUNK_ID_CMAP == <<67, 77, 65, 80>>

IFF_CHUNK_ID_ABIT == <<65, 66, 73, 84>>

IFF_CHUNK_ID_BODY == <<66, 79, 68, 89>>

\* TextDecoder.decode: a byte below 128 is its character; any other byte of
\* the model's data is no valid UTF-8 and decodes to U+FFFD
TextDecode(bytes) == [i \in 1..Len(bytes) |-> IF bytes[i] < 128 THEN bytes[i] ELSE 65533]

\* the big-endian bytes of a 16 and of a 32 bit value
Uint16Bytes(v) == <<(v \div 256) % 256, v % 256>>

Uint32Bytes(v) == <<(v \div 16777216) % 256, (v \div 65536) % 256, (v \div 256) % 256, v % 256>>

\* new IffChunkReader(buffer, byteOffset, byteLength)
IffChunkReader(byteOffset, byteLength) ==
  [byteOffset |-> byteOffset, byteLength |-> byteLength, pos |-> 0, error |-> "none"]

\* the big-endian number in the 4 bytes before offset
LengthField(bytes, offset) ==
  ((bytes[offset - 3] * 256 + bytes[offset - 2]) * 256 + bytes[offset - 1]) * 256 + bytes[offset]

\* new DataView(buffer, byteOffset, byteLength) throws unless the view lies in the buffer
ViewFits(buf, byteOffset, byteLength) == byteOffset + byteLength <= Len(buf)

\* readBytes(length): buffer.slice, which stops at the end of the buffer
IffR_readBytes(buf, rd, length) ==
  LET start == Min(rd.byteOffset + rd.pos, Len(buf))
      end == Max(start, Min(rd.byteOffset + rd.pos + length, Len(buf)))
  IN [bytes |-> SubSeq(buf, start + 1, end), rd |-> [rd EXCEPT !.pos = @ + (end - start)]]

\* readUint8 / readUint16 / readUint32 (n = 1, 2, 4): the big-endian value of
\* the next n bytes of the view; a RangeError when they are not all inside it.
\* Values from 2^31 on are held at 2^31 - 1.
IffR_readUint(buf, rd, n) ==
  IF rd.pos < 0 \/ rd.pos + n > rd.byteLength
    THEN [value |-> 0, rd |-> [rd EXCEPT !.error = "RangeError"]]
    ELSE LET at(i) == buf[rd.byteOffset + rd.pos + i]
             value == IF n = 1 THEN at(1)
                      ELSE IF n = 2 THEN at(1) * 256 + at(2)
                      ELSE IF at(1) >= 128 THEN 2147483647
                      ELSE at(1) * 16777216 + at(2) * 65536 + at(3) * 256 + at(4)
         IN [value |-> value, rd |-> [rd EXCEPT !.pos = @ + n]]

\* eof()
IffR_eof(rd) == rd.pos = rd.byteLength

\* the pad rule that skips whenever the position is odd
IffR_skipPad_always(buf, rd) ==
  IF rd.pos % 2 = 1 /\ ~IffR_eof(rd) THEN [rd EXCEPT !.pos = @ + 1] ELSE rd

\* the end of readChunk: one byte is skipped when #pos is odd, not at the
\* end of the view, and the byte there is 0 (getUint8 throws outside the view)
IffR_skipPad(buf, rd) ==
  IF rd.pos % 2 = 1 /\ ~IffR_eof(rd)
    THEN IF rd.pos > rd.byteLength THEN [rd EXCEPT !.error = "RangeError"]
         ELSE IF buf[rd.byteOffset + rd.pos + 1] = 0 THEN [rd EXCEPT !.pos = @ + 1]
         ELSE rd
    ELSE rd

\* readChunk(): [id, length, reader |-> the reader of the payload, rd |-> this
\* reader after the call]; rd.error tells what was thrown
IffR_readChunk(buf, rd) ==
  LET s == IffR_readBytes(buf, rd, 4)
      id == TextDecode(s.bytes)
      l == IffR_readUint(buf, s.rd, 4)
      dataStart == rd.byteOffset + l.rd.pos
      failed(r) == [id |-> id, length |-> 0, reader |-> IffChunkReader(0, 0), rd |-> r]
  IN IF l.rd.error # "none" THEN failed(l.rd)
     ELSE IF ~ViewFits(buf, dataStart, l.value) THEN failed([l.rd EXCEPT !.error = "RangeError"])
     ELSE [id |-> id, length |-> l.value,
           reader |-> IffChunkReader(dataStart, l.value),
           rd |-> IffR_skipPad(buf, [l.rd EXCEPT !.pos = @ + l.value])]

----------------------------------------------------------------------------
(* readChunk called on chunk streams until eof() *)

MaxChunks == 2        \* streams of 1..MaxChunks chunks

MaxPayload == 3       \* payloads of 0..MaxPayload bytes

\* id, length and payload of one chunk; every byte of the payload is fill
Chunk(id, length, fill) == [id |-> id, length |-> length, data |-> [i \in 1..length |-> fill]]

RECURSIVE StreamOf(_, _, _)
\* the bytes of a chunk list as a writer lays them out: with padded, a zero
\* byte follows every payload of odd length (after the last chunk only with trail)
StreamOf(list, padded, trail) ==
  IF list = <<>> THEN <<>>
  ELSE LET c == Head(list)
           pad == IF padded /\ c.length % 2 = 1 /\ (Len(list) > 1 \/ trail) THEN <<0>> ELSE <<>>
       IN c.id \o Uint32Bytes(c.length) \o c.data \o pad \o StreamOf(Tail(list), padded, trail)

RECURSIVE ChunkLists(_)
\* the chunk lists of n chunks of the model
ChunkLists(n) ==
  IF n = 0 THEN {<<>>}
  ELSE {<<Chunk(id, length, fill)>> \o rest :
          id \in {IFF_CHUNK_ID_CMAP, IFF_CHUNK_ID_BODY}, length \in 0..MaxPayload,
          fill \in {0, 65}, rest \in ChunkLists(n - 1)}

InitChunks ==
  /\ \E n \in 1..MaxChunks, padded \in BOOLEAN, trail \in BOOLEAN :
       \E list \in ChunkLists(n) :
         /\ made = [by |-> "writer", chunks |-> list, padded |-> padded, trail |-> trail]
         /\ buffer = StreamOf(list, padded, trail)
  /\ reader = IffChunkReader(0, Len(buffer))
  /\ chunks = <<>>
  /\ meta = [encoding |-> "none"]
  /\ imageData = NoImage
  /\ palette = Palette(1, 8, FALSE)
  /\ options = [format |-> ENCODING_FORMAT_WORD]
  /\ decoded = NoImage
  /\ ipr = NoReader
  /\ pc = NoCall
  /\ NoPack
  /\ NoTools

\* while (!reader.eof()) { const { id, length, reader: payload } = reader.readChunk(); ... }
ReadChunk ==
  /\ ~IffR_eof(reader)
  /\ reader.error = "none"
  /\ LET c == IffR_readChunk(buffer, reader)
     IN /\ reader' = c.rd
        /\ chunks' = IF c.rd.error # "none" THEN chunks
                     ELSE Append(chunks, [id |-> c.id, length |-> c.length,
                                          data |-> IffR_readBytes(buffer, c.reader, c.length).bytes])
        /\ pc' = [NoCall EXCEPT !.op = "readChunk", !.error = c.rd.error]
  /\ UNCHANGED <<made, meta, codecVars, packVars, toolVars>>

NextChunks == ReadChunk

SpecChunks == InitChunks /\ [][NextChunks]_vars

----------------------------------------------------------------------------
(* IffChunkWriter  (src/formats/iff/IffChunkWriter.js)                      *)
(*                                                                         *)
(* A writer is [bytes, pos, capacity, stack, error]: bytes are the bytes    *)
(* stored so far into a buffer of capacity bytes, pos is #pos, stack is     *)
(* #chunkOffsetStack (its last element is #currentChunkOffset).             *)

\* TextEncoder.encode: UTF-8, one byte for a character below 128, two up to 2047
TextEncode(str) ==
  IF \A i \in 1..Len(str) : str[i] < 128 THEN str
  ELSE [i \in 1..(2 * Len(str)) |->
          LET c == str[(i + 1) \div 2]
          IN IF i % 2 = 1 THEN 192 + ((c \div 64) % 32) ELSE 128 + (c % 64)]

\* new IffChunkWriter(buffer) on a buffer of capacity bytes: bytes holds
\* the view up to the last byte stored, the bytes after them being 0
IffChunkWriter(capacity) ==
  [bytes |-> <<>>, pos |-> 0, capacity |-> capacity, stack |-> <<>>, error |-> "none"]

\* #view.set*(#pos, ...) of the bytes given, then #pos += advance:
\* DataView.set* throws a RangeError past the end of the buffer
IffW_store(w, bytes, advance) ==
  IF w.error # "none" THEN w
  ELSE IF w.pos + Len(bytes) > w.capacity THEN [w EXCEPT !.error = "RangeError"]
  ELSE [w EXCEPT !.bytes = [i \in 1..Max(Len(w.bytes), w.pos + Len(bytes)) |->
                              IF i > w.pos /\ i <= w.pos + Len(bytes) THEN bytes[i - w.pos]
                              ELSE w.bytes[i]],
                 !.pos = @ + advance]

\* writeUint8 / writeInt8 / writeUint16 / writeInt16 / writeUint32 /
\* writeBytes / writeString of the bytes given
IffW_write(w, bytes) == IffW_store(w, bytes, Len(bytes))

\* writeInt32(value), for value >= 0: #pos += 2 after the four bytes
IffW_writeInt32(w, value) == IffW_store(w, Uint32Bytes(value), 2)

\* startChunk(type)
IffW_startChunk(w, type) ==
  LET Open(p) == IF p.error # "none" THEN p ELSE [p EXCEPT !.stack = Append(@, p.pos)]
  IN Open(IffW_write(w, (IF w.pos % 2 = 1 THEN <<0>> ELSE <<>>)
                          \o TextEncode(type) \o Uint32Bytes(0)))

\* endChunk() with a chunk open: the length is stored in the 4 bytes before
\* the payload; result is the value returned, length + 8
IffW_endChunk(w) ==
  LET offset == w.stack[Len(w.stack)]
      length == w.pos - offset
  IN IF w.error # "none" THEN [w |-> w, result |-> 0]
     ELSE [w |-> [w EXCEPT !.bytes = [i \in 1..Len(w.bytes) |->
                                        IF i > offset - 4 /\ i <= offset
                                          THEN Uint32Bytes(length)[i - (offset - 4)]
                                          ELSE w.bytes[i]],
                           !.stack = SubSeq(@, 1, Len(@) - 1)],
           result |-> length + 8]

\* startChunk(type); the writes of data; endChunk()
IffW_chunk(w, type, data) == IffW_endChunk(IffW_write(IffW_startChunk(w, type), data)).w

----------------------------------------------------------------------------
(* IFF encoder  (src/formats/iff/encode.js)                                 *)

COMPRESSION_NONE == 0

COMPRESSION_PACKBITS == 1

COMPRESSION_ATARI == 2

AMIGA_MODE_LACE == 4

IFF_ENCODING_FORMAT_ILBM == "ilbm"

IFF_ENCODING_FORMAT_ACBM == "acbm"

\* the 20 bytes written into the BMHD chunk
BmhdBytes(width, height, planes, compression, pageWidth, pageHeight) ==
  Uint16Bytes(width) \o Uint16Bytes(height) \o Uint16Bytes(0) \o Uint16Bytes(0)
    \o <<planes % 256, 0, compression, 0>> \o Uint16Bytes(0) \o <<1, 1>>
    \o Uint16Bytes(pageWidth) \o Uint16Bytes(pageHeight)

\* the bytes written into the CMAP chunk: writeUint8 of r, g, b of
\* palette.resample(8); setUint8 drops the fraction of a channel
CmapBytes(p) ==
  LET q == resample(p, 8)
  IN [i \in 1..(3 * Len(q.colors)) |->
        LET c == q.colors[(i + 2) \div 3]
            k == (i - 1) % 3
        IN ((IF k = 0 THEN c.r ELSE IF k = 1 THEN c.g ELSE c.b) \div q.den) % 256]

\* the writes of the encoder from startChunk(FORM) to the final endChunk(),
\* for the plane data to store: [error, buffer |-> buffer.slice(0, writer.endChunk())]
IffWrite(img, p, opts, body) ==
  LET ilbm == opts.encoding = IFF_ENCODING_FORMAT_ILBM
      w1 == IffW_write(IffW_startChunk(IffChunkWriter(Len(body) + 2048), IFF_CHUNK_ID_FORM),
                       TextEncode(IF ilbm THEN IFF_CHUNK_ID_ILBM ELSE IFF_CHUNK_ID_ACBM))
      w2 == IffW_chunk(w1, IFF_CHUNK_ID_BMHD,
                       BmhdBytes(img.width, img.height, getPlaneCountForIndexedPalette(p),
                                 IF opts.compression # 0 THEN 1 ELSE 0, img.width, img.height))
      w3 == IF opts.amigaLace
              THEN IffW_chunk(w2, IFF_CHUNK_ID_CAMG, Uint32Bytes(AMIGA_MODE_LACE))
              ELSE w2
      w4 == IffW_chunk(w3, IFF_CHUNK_ID_CMAP, CmapBytes(p))
      w5 == IffW_chunk(w4, IF ilbm THEN IFF_CHUNK_ID_BODY ELSE IFF_CHUNK_ID_ABIT, body)
      Slice(e) == IF e.w.error # "none" THEN [error |-> e.w.error, buffer |-> <<>>]
                  ELSE [error |-> "none", buffer |-> SubSeq(e.w.bytes, 1, e.result)]
  IN IF opts.encoding \notin {IFF_ENCODING_FORMAT_ILBM, IFF_ENCODING_FORMAT_ACBM}
       THEN [error |-> "PlanarCoderError", buffer |-> <<>>]
       ELSE Slice(IffW_endChunk(w5))

\* encode(imageData, palette, options) of the IFF encoder, for options
\* {compression, encoding, amigaLace} (amigaEhb and amigaHires are left false)
IffEncode(img, p, opts) ==
  LET format == IF opts.encoding = IFF_ENCODING_FORMAT_ILBM
                  THEN ENCODING_FORMAT_LINE ELSE ENCODING_FORMAT_CONTIGUOUS
      planeLength8 == CeilDiv(img.width, 8)
      Packed(plane) ==
        IF plane.error # "none" THEN [error |-> plane.error, data |-> <<>>]
        ELSE IF opts.compression # 0 /\ opts.encoding = IFF_ENCODING_FORMAT_ILBM
          THEN pack(plane.buffer, planeLength8)
        ELSE [error |-> "none", data |-> plane.buffer]
      Written(body) ==
        IF body.error # "none" THEN [error |-> body.error, buffer |-> <<>>]
        ELSE IffWrite(img, p, opts, body.data)
  IN Written(Packed(encode(img, p, [format |-> format])))

----------------------------------------------------------------------------
(* IndexedPalette construction and createEhbPalette                        *)
(* (src/lib/IndexedPalette.js, src/IndexedPaletteHelpers.js)               *)

\* new IndexedPalette(colors, { bitsPerChannel })
IndexedPalette(colors, bitsPerChannel) ==
  [bitsPerChannel |-> bitsPerChannel, den |-> 1, colors |-> [i \in 1..colors |-> Hole]]

\* setColor(index, r, g, b, a) with integers, for index >= 0: the slot of
\* an Array is assigned, and an Array grows to hold an index at or after
\* its length.  (A negative index sets a property that is no element.)
setColor(p, index, r, g, b, a) ==
  LET max == MaxChannelValue(p.bitsPerChannel)
      Ch(v) == Max(0, Min(v, max)) * p.den
      color == [r |-> Ch(r), g |-> Ch(g), b |-> Ch(b), a |-> Ch(a)]
  IN IF index < 0 THEN p
     ELSE [p EXCEPT !.colors = [i \in 1..Max(Len(p.colors), index + 1) |->
                                  IF i = index + 1 THEN color
                                  ELSE IF i <= Len(p.colors) THEN p.colors[i]
                                  ELSE Hole]]

\* createEhbPalette(palette): [error, palette]; getColor of an empty slot
\* or of an index past the end is undefined, which cannot be destructured.
\* The channels of entry c + 32 are r / 2, g / 2, b / 2, not rounded.
createEhbPalette(p) ==
  LET max == MaxChannelValue(8) * 2 * p.den
      Ch(v) == Max(0, Min(v, max))
  IN IF Len(p.colors) < 32 \/ \E c \in 1..32 : p.colors[c] = Hole
       THEN [error |-> "TypeError", palette |-> <<>>]
       ELSE [error |-> "none",
             palette |-> [bitsPerChannel |-> 8, den |-> 2 * p.den,
                          colors |-> [i \in 1..64 |->
                            IF i <= 32
                              THEN [r |-> Ch(2 * p.colors[i].r), g |-> Ch(2 * p.colors[i].g),
                                    b |-> Ch(2 * p.colors[i].b), a |-> max]
                              ELSE [r |-> Ch(p.colors[i - 32].r), g |-> Ch(p.colors[i - 32].g),
                                    b |-> Ch(p.colors[i - 32].b), a |-> max]]]]

----------------------------------------------------------------------------
(* HamReader  (src/formats/iff/HamReader.js)                                *)

\* the bytes r, g, b, a of a 32-bit colour, <<>> being an undefined one:
\* undefined & mask is 0 and setUint32(offset, undefined) stores 0
ColorBytes(color) == IF color = <<>> THEN <<0, 0, 0, 0>> ELSE color

\* new HamReader(buffer, planes, width, palette): the BitplaneReader it
\* extends, #planes, #colors, #mask and #currentColor; #scale is
\* 255 / (1 << #planes)
HamReader(planes, width, p) ==
  LET bytesPerLine == CeilDiv(width, 8)
  IN [rd |-> BitplaneReader(bytesPerLine, 0, 1, bytesPerLine * planes, planes, bytesPerLine),
      planes |-> planes - 2,
      colors |-> toValueArray(p),
      mask |-> 2^(planes - 2) - 1,
      currentColor |-> <<>>]

\* the byte of the colour a command patches, counted from the wrong end
HamChannel_abgr(cmd) == IF cmd = 1 THEN 2 ELSE IF cmd = 2 THEN 4 ELSE 3

\* the byte of the colour a command patches: 1 is val << 8 (blue),
\* 2 is val << 24 (red), any other is val << 16 (green)
HamChannel(cmd) == IF cmd = 1 THEN 3 ELSE IF cmd = 2 THEN 1 ELSE 2

\* (c & #mask) * #scale as `val << n` takes it: truncated to an integer
HamValue(h, c) == ((c % (h.mask + 1)) * 255) \div (2^h.planes)

\* #step() for the value c that super.read() returned
HamPatch(h, c) ==
  IF c <= h.mask
    THEN IF c < Len(h.colors) THEN h.colors[c + 1] ELSE <<>>
    ELSE [ColorBytes(h.currentColor) EXCEPT ![HamChannel(c \div (2^h.planes))] = HamValue(h, c)]

\* #step()
Ham_step(buf, h) ==
  LET Took(r) == [h EXCEPT !.rd = r.rd, !.currentColor = HamPatch(h, r.color)]
  IN Took(BitplaneReader_read(buf, h.rd))

RECURSIVE Ham_advance(_, _, _)
\* advance(pixels)
Ham_advance(buf, h, pixels) ==
  IF pixels <= 0 THEN h ELSE Ham_advance(buf, Ham_step(buf, h), pixels - 1)

\* a setPalette that starts again from no colour
Ham_setPalette_reset(h, p) == [h EXCEPT !.colors = toValueArray(p), !.currentColor = <<>>]

\* setPalette(palette)
Ham_setPalette(h, p) == [h EXCEPT !.colors = toValueArray(p)]

----------------------------------------------------------------------------
(* IFF decoder  (src/formats/tiny/decode.js, lines 114-360)                 *)
(*                                                                         *)
(* The files of this model hold the chunks BMHD, CAMG, CMAP, ABIT, BODY,   *)
(* CTBL, BEAM, SHAM and RAST, and chunks of other ids, which the decoder   *)
(* skips.  Their compression code is never COMPRESSION_ATARI, so the VDAT  *)
(* branch of the BODY handler is not part of the model.                    *)

IFF_CHUNK_ID_RAST == <<82, 65, 83, 84>>

IFF_CHUNK_ID_CTBL == <<67, 84, 66, 76>>

IFF_CHUNK_ID_BEAM == <<66, 69, 65, 77>>

IFF_CHUNK_ID_SHAM == <<83, 72, 65, 77>>

\* the value of a slot of `rasters` that holds no palette
UndefinedPalette == [bitsPerChannel |-> 0, den |-> 1, colors |-> <<>>]

\* the CTBL / BEAM / SHAM handler for the bytes of the chunk: [error, rasters];
\* the loop runs while paletteIndex < the bytes left / 32, and readUint16
\* throws where a palette is cut short
IffSlicedPalettes(data, skip) ==
  LET left == Len(data) - skip
      Word(k, i) == data[skip + 32 * (k - 1) + 2 * i - 1] * 256 + data[skip + 32 * (k - 1) + 2 * i]
  IN IF left < 0 \/ left % 32 # 0 THEN [error |-> "RangeError", rasters |-> <<>>]
     ELSE [error |-> "none",
           rasters |-> [k \in 1..(left \div 32) |->
                          [bitsPerChannel |-> 4, den |-> 1,
                           colors |-> [i \in 1..16 |->
                                         [r |-> (Word(k, i) \div 256) % 16,
                                          g |-> (Word(k, i) \div 16) % 16,
                                          b |-> Word(k, i) % 16, a |-> 15]]]]]

\* readAtariStIndexedPalette(buffer, colors) for a buffer of 2 * colors
\* bytes: a palette of 3 bits per channel, or what
\* createAtariSteIndexedPalette returns, of 4 bits, when a channel has bit 3 set
readAtariStIndexedPalette(bytes, colors) ==
  LET word(c) == bytes[2 * c - 1] * 256 + bytes[2 * c]
      r(c) == (word(c) \div 256) % 16
      g(c) == (word(c) \div 16) % 16
      b(c) == word(c) % 16
      Ste(v) == (v \div 8) + ((2 * v) % 16)
  IN IF \E c \in 1..colors : r(c) >= 8 \/ g(c) >= 8 \/ b(c) >= 8
       THEN [bitsPerChannel |-> 4, den |-> 1,
             colors |-> [c \in 1..colors |->
                           [r |-> Ste(r(c)), g |-> Ste(g(c)), b |-> Ste(b(c)), a |-> 15]]]
       ELSE [bitsPerChannel |-> 3, den |-> 1,
             colors |-> [c \in 1..colors |-> [r |-> r(c), g |-> g(c), b |-> b(c), a |-> 7]]]

\* extractRasterData(reader) for the bytes of a chunk whose length is a
\* multiple of 34: [error, rasters].  rasters[line] is the palette of the
\* last entry for that line; then each slot r of 1..199 that holds none
\* takes slot r - 1, so it holds the palette of the nearest line before it
extractRasterData(data) ==
  LET n == Len(data) \div 34
      Line(k) == data[34 * (k - 1) + 1] * 256 + data[34 * (k - 1) + 2]
      Entry(k) == readAtariStIndexedPalette(SubSeq(data, 34 * (k - 1) + 3, 34 * k), 16)
      Last(l) == CHOOSE k \in 1..n : Line(k) = l /\ \A j \in (k + 1)..n : Line(j) # l
      Filled(given) ==
        LET top == IF given = {} THEN 0 ELSE CHOOSE l \in given : \A m \in given : m <= l
            Slot(l) == IF l \in given THEN Entry(Last(l))
                       ELSE IF l > 199 \/ \A m \in given : m > l THEN UndefinedPalette
                       ELSE Entry(Last(CHOOSE m \in given :
                                         m < l /\ \A j \in (m + 1)..(l - 1) : j \notin given))
        IN [i \in 1..Max(200, top + 1) |-> Slot(i - 1)]
  IN IF Len(data) % 34 # 0 THEN [error |-> "RangeError", rasters |-> <<>>]
     ELSE [error |-> "none", rasters |-> Filled({Line(k) : k \in 1..n})]

AMIGA_MODE_EHB == 128

AMIGA_MODE_HAM == 2048

AMIGA_MODE_HIRES == 32768

\* !!(amigaMode & flag) for a one-bit flag; an amigaMode never set is 0 here
HasMode(amigaMode, flag) == (amigaMode \div flag) % 2 = 1

\* the variables of the decoder before the scan; undefined marks a header
\* field no BMHD chunk has set
IffScanStart(rd) ==
  [rd |-> rd, error |-> "none",
   width |-> undefined, height |-> undefined, planes |-> undefined,
   compression |-> undefined, xAspectRatio |-> undefined, yAspectRatio |-> undefined,
   pageWidth |-> undefined, pageHeight |-> undefined, bytesPerLine |-> undefined,
   amigaMode |-> 0, hasPalette |-> FALSE, palette |-> Palette(1, 8, FALSE),
   hasData |-> FALSE, bitplaneData |-> <<>>, bitplaneEncoding |-> "none",
   rasters |-> <<>>]

\* the BODY handler that takes the bytes as they are unless they are packed
IffBody_raw(st, data) ==
  IF st.compression = COMPRESSION_PACKBITS
    THEN depack(data, st.bytesPerLine * st.height * st.planes)
    ELSE [error |-> "none", data |-> data]

\* the BODY handler for the bytes of the chunk: [error, data |-> the bit
\* planes]; error "skip" when no branch takes the compression code, which
\* leaves bitplaneData as it was
IffBody(st, data) ==
  IF st.compression = COMPRESSION_NONE THEN [error |-> "none", data |-> data]
  ELSE IF st.compression = COMPRESSION_PACKBITS
    THEN depack(data, st.bytesPerLine * st.height * st.planes)
  ELSE [error |-> "skip", data |-> <<>>]

\* the bytes a chunk's reader spans
ChunkData(buf, c) == SubSeq(buf, c.reader.byteOffset + 1, c.reader.byteOffset + c.length)

\* the handler of one chunk c = [id, length, reader] in the scan loop
IffChunkHandler(buf, st, c) ==
  LET at(i) == buf[c.reader.byteOffset + i + 1]
      data == ChunkData(buf, c)
      Rasters(e) == IF e.error # "none" THEN [st EXCEPT !.error = e.error]
                    ELSE [st EXCEPT !.rasters = e.rasters]
      Unpacked(d) == IF d.error = "skip" THEN st
                     ELSE IF d.error # "none" THEN [st EXCEPT !.error = d.error]
                     ELSE [st EXCEPT !.hasData = TRUE, !.bitplaneData = d.data,
                                     !.bitplaneEncoding = ENCODING_FORMAT_LINE]
  IN IF c.id = IFF_CHUNK_ID_BMHD
       THEN IF c.length < 20 THEN [st EXCEPT !.error = "RangeError"]
            ELSE [st EXCEPT !.width = at(0) * 256 + at(1),
                            !.height = at(2) * 256 + at(3),
                            !.planes = at(8),
                            !.compression = at(10),
                            !.xAspectRatio = at(14),
                            !.yAspectRatio = at(15),
                            !.pageWidth = at(16) * 256 + at(17),
                            !.pageHeight = at(18) * 256 + at(19),
                            !.bytesPerLine = CeilDiv(at(0) * 256 + at(1), 16) * 2]
     ELSE IF c.id = IFF_CHUNK_ID_CAMG
       THEN IF c.length < 4 THEN [st EXCEPT !.error = "RangeError"]
            ELSE [st EXCEPT !.amigaMode = IffR_readUint(buf, c.reader, 4).value]
     ELSE IF c.id = IFF_CHUNK_ID_CMAP
       THEN \* new IndexedPalette(length / 3): new Array of a fraction throws
            IF c.length % 3 # 0 THEN [st EXCEPT !.error = "RangeError"]
            ELSE [st EXCEPT !.hasPalette = TRUE,
                            !.palette = [bitsPerChannel |-> 8, den |-> 1,
                                         colors |-> [k \in 1..(c.length \div 3) |->
                                           [r |-> at(3 * k - 3), g |-> at(3 * k - 2),
                                            b |-> at(3 * k - 1), a |-> 255]]]]
     ELSE IF c.id \in {IFF_CHUNK_ID_CTBL, IFF_CHUNK_ID_BEAM, IFF_CHUNK_ID_SHAM}
       THEN Rasters(IffSlicedPalettes(data, IF c.id = IFF_CHUNK_ID_SHAM THEN 2 ELSE 0))
     ELSE IF c.id = IFF_CHUNK_ID_RAST
       THEN Rasters(extractRasterData(data))
     ELSE IF c.id = IFF_CHUNK_ID_ABIT
       THEN [st EXCEPT !.hasData = TRUE, !.bitplaneData = data,
                       !.bitplaneEncoding = ENCODING_FORMAT_CONTIGUOUS]
     ELSE IF c.id = IFF_CHUNK_ID_BODY
       THEN Unpacked(IffBody(st, data))
     ELSE st

\* one turn of while (!formChunk.reader.eof()): readChunk and its handler
IffScanStep(buf, st) ==
  LET Handle(c) == IF c.rd.error # "none" THEN [st EXCEPT !.rd = c.rd, !.error = c.rd.error]
                   ELSE IffChunkHandler(buf, [st EXCEPT !.rd = c.rd], c)
  IN Handle(IffR_readChunk(buf, st.rd))

RECURSIVE IffScan(_, _, _)
\* at most k turns of the scan loop; a throw ends it
IffScan(buf, st, k) ==
  IF k = 0 \/ IffR_eof(st.rd) \/ st.error # "none" THEN st
  ELSE IffScan(buf, IffScanStep(buf, st), k - 1)

\* pixels.setUint32((y * width + x) * 4, reader.read()); x++
HamPixel(buf, st) ==
  LET Took(h) == [st EXCEPT !.h = h, !.data = Append(@, ColorBytes(h.currentColor)), !.x = @ + 1]
  IN Took(Ham_step(buf, st.h))

RECURSIVE HamTurns(_, _, _, _)
\* at most k turns of the loop over x of the two HAM decoders
\* (the turns are evaluated as two halves, the second from the first's result)
HamTurns(buf, width, st, k) ==
  IF k = 0 \/ st.x >= width THEN st
  ELSE IF k = 1 THEN HamPixel(buf, st)
  ELSE HamTurns(buf, width, HamTurns(buf, width, st, k \div 2), k - (k \div 2))

RECURSIVE HamLoop(_, _, _, _, _)
\* the loop over y of decodeHamImage (sliced FALSE) and of
\* decodeSlicedHamImage (sliced TRUE), which first calls
\* reader.setPalette(palette[y].resample(8)): a TypeError when palette[y]
\* is undefined
HamLoop(buf, colors, sliced, dim, st) ==
  IF st.y >= dim.height \/ st.error # "none" THEN st
  ELSE IF sliced /\ (st.y >= Len(colors) \/ colors[st.y + 1] = UndefinedPalette)
    THEN [st EXCEPT !.error = "TypeError"]
  ELSE LET set == IF sliced THEN Ham_setPalette(st.h, resample(colors[st.y + 1], 8)) ELSE st.h
           Line(l) == [l EXCEPT !.h = Ham_advance(buf, l.h, CeilDiv(dim.width, 16) * 16 - dim.width),
                                !.y = @ + 1]
       IN HamLoop(buf, colors, sliced, dim,
                  Line(HamTurns(buf, dim.width, [st EXCEPT !.h = set, !.x = 0], dim.width)))

\* decodeHamImage(bitplaneData, width, height, planes, palette): [error, imageData]
decodeHamImage(buf, width, height, planes, p) ==
  LET Out(st) == [error |-> st.error,
                  imageData |-> [width |-> width, height |-> height, data |-> st.data]]
  IN Out(HamLoop(buf, <<>>, FALSE, [width |-> width, height |-> height],
                 [h |-> HamReader(planes, width, p), data |-> <<>>, x |-> 0, y |-> 0,
                  error |-> "none"]))

\* decodeSlicedHamImage(bitplaneData, width, height, planes, palette):
\* [error, imageData]; new HamReader(.., palette[0]) throws a TypeError
\* when palette[0] is undefined
decodeSlicedHamImage(buf, width, height, planes, colors) ==
  LET Out(st) == [error |-> st.error,
                  imageData |-> [width |-> width, height |-> height, data |-> st.data]]
  IN IF Len(colors) = 0 \/ colors[1] = UndefinedPalette
       THEN [error |-> "TypeError", imageData |-> NoImage]
       ELSE Out(HamLoop(buf, colors, TRUE, [width |-> width, height |-> height],
                        [h |-> HamReader(planes, width, colors[1]), data |-> <<>>,
                         x |-> 0, y |-> 0, error |-> "none"]))

RECURSIVE RasterLoop(_, _, _, _, _)
\* the loop over y of decodeRasterImage: writer.setPalette(rasters[y].resample(8))
\* is a TypeError when rasters[y] is undefined, then width pixels are copied
RasterLoop(buf, rasters, width, height, st) ==
  IF st.y >= height \/ st.error # "none" THEN st
  ELSE IF st.y >= Len(rasters) \/ rasters[st.y + 1] = UndefinedPalette
    THEN [st EXCEPT !.error = "TypeError"]
  ELSE LET Line(l) == [l EXCEPT !.y = @ + 1]
       IN RasterLoop(buf, rasters, width, height,
                     Line(DecodeLine(buf, toValueArray(resample(rasters[st.y + 1], 8)), width,
                                     [st EXCEPT !.x = 0])))

\* decodeRasterImage(bitplaneData, width, height, planes, palette, rasters):
\* [error, imageData]; the reader is BitplaneReader.line(.., planes, width)
decodeRasterImage(buf, width, height, planes, p, rasters) ==
  LET Out(st) == [error |-> st.error,
                  imageData |-> [width |-> width, height |-> height, data |-> st.data]]
  IN Out(RasterLoop(buf, rasters, width, height,
                    [rd |-> BitplaneReader_line(planes, width), data |-> <<>>,
                     x |-> 0, y |-> 0, error |-> "none"]))

\* the palettes given to decodeSlicedHamImage: rasters, or for fewer
\* rasters than lines colors[c] = rasters[c * rasters.length / height | 0]
SlicedColors(rasters, height) ==
  IF Len(rasters) < height
    THEN [c \in 1..height |-> rasters[((c - 1) * Len(rasters)) \div height + 1]]
    ELSE rasters

\* a check that asks for one of the two structures only
IffRequired_either(st) == st.hasData \/ st.hasPalette

\* !(!bitplaneData || !palette)
IffRequired(st) == st.hasData /\ st.hasPalette

\* the decoder after the scan: the required-structure check, the palette
\* of an EHB image, the metadata, and the assembly of the image by
\* decodeSlicedHamImage, decodeHamImage, decodeRasterImage or decode()
IffFinish(st) ==
  LET ehb == HasMode(st.amigaMode, AMIGA_MODE_EHB)
      \* IndexedPalette.fromValueArray(palette.toValueArray().slice(0, 32))
      kept == IF ehb /\ Len(st.palette.colors) > 32
                THEN [bitsPerChannel |-> 8, den |-> 1,
                      colors |-> [i \in 1..32 |->
                        LET v == ValueOf8(st.palette.colors[i], st.palette.den)
                        IN [r |-> v[1], g |-> v[2], b |-> v[3], a |-> v[4]]]]
                ELSE st.palette
      Decoded(d) == [error |-> d.error,
                     imageData |-> IF d.error = "none" THEN d.imageData ELSE NoImage,
                     meta |-> IF d.error # "none" THEN [encoding |-> "none"] ELSE
                            [compression |-> st.compression,
                             xAspectRatio |-> st.xAspectRatio,
                             yAspectRatio |-> st.yAspectRatio,
                             pageWidth |-> st.pageWidth, pageHeight |-> st.pageHeight,
                             encoding |-> IF st.bitplaneEncoding = ENCODING_FORMAT_LINE
                                            THEN IFF_ENCODING_FORMAT_ILBM
                                            ELSE IFF_ENCODING_FORMAT_ACBM,
                             amigaLace |-> HasMode(st.amigaMode, AMIGA_MODE_LACE),
                             amigaEhb |-> ehb,
                             amigaHam |-> HasMode(st.amigaMode, AMIGA_MODE_HAM),
                             amigaHires |-> HasMode(st.amigaMode, AMIGA_MODE_HIRES),
                             planeCount |-> st.planes,
                             palette |-> IF Len(st.rasters) > 0 THEN st.rasters ELSE kept]]
      failed(e) == [error |-> e, imageData |-> NoImage, meta |-> [encoding |-> "none"]]
      Assembly(p) ==
        IF HasMode(st.amigaMode, AMIGA_MODE_HAM)
          THEN IF Len(st.rasters) > 0
                 THEN decodeSlicedHamImage(st.bitplaneData, st.width, st.height, st.planes,
                                           SlicedColors(st.rasters, st.height))
                 ELSE decodeHamImage(st.bitplaneData, st.width, st.height, st.planes, p)
        ELSE IF Len(st.rasters) > 0
          THEN decodeRasterImage(st.bitplaneData, st.width, st.height, st.planes, p, st.rasters)
        ELSE decode(st.bitplaneData, st.width, st.height, p, [format |-> st.bitplaneEncoding])
      Extended(e) == IF e.error # "none" THEN failed(e.error) ELSE Decoded(Assembly(e.palette))
  IN IF st.error # "none" THEN failed(st.error)
     ELSE IF ~IffRequired(st) THEN failed("PlanarCoderError")
     \* new ImageData(width, height) throws for a width or height of 0 or undefined
     ELSE IF st.width <= 0 \/ st.height <= 0 THEN failed("IndexSizeError")
     ELSE IF ehb THEN Extended(createEhbPalette(kept))
     ELSE Decoded(Assembly(kept))

\* a look-ahead that takes a RAST chunk of any declared length
IffLookAhead_anySize(buf, rd) ==
  LET probe == IffChunkReader(rd.pos, 8)
      id == TextDecode(IffR_readBytes(buf, probe, 4).bytes)
      Got(e, main) == [error |-> e.error, rasters |-> e.rasters, rd |-> main]
      Taken(c) == IF c.rd.error # "none"
                    THEN [error |-> c.rd.error, rasters |-> <<>>, rd |-> c.rd]
                    ELSE Got(extractRasterData(ChunkData(buf, c)), c.rd)
  IN IF rd.pos < rd.byteLength - 8 /\ id = IFF_CHUNK_ID_RAST
       THEN Taken(IffR_readChunk(buf, rd))
       ELSE [error |-> "none", rasters |-> <<>>, rd |-> rd]

\* the look-ahead after the outer chunk, rd being the main reader:
\* [error, rasters, rd |-> the main reader after it]
IffLookAhead(buf, rd) ==
  LET probe == IffChunkReader(rd.pos, 8)
      id == TextDecode(IffR_readBytes(buf, probe, 4).bytes)
      size == IffR_readUint(buf, IffR_readBytes(buf, probe, 4).rd, 4).value
      Got(e, main) == [error |-> e.error, rasters |-> e.rasters, rd |-> main]
      Taken(c) == IF c.rd.error # "none"
                    THEN [error |-> c.rd.error, rasters |-> <<>>, rd |-> c.rd]
                    ELSE Got(extractRasterData(ChunkData(buf, c)), c.rd)
  IN IF rd.pos < rd.byteLength - 8 /\ id = IFF_CHUNK_ID_RAST /\ size = 6800
       THEN Taken(IffR_readChunk(buf, rd))
       ELSE [error |-> "none", rasters |-> <<>>, rd |-> rd]

\* decode(buffer) of the IFF decoder: [error, imageData, meta, position |->
\* reader.position of the main reader when decode returns or throws]
IffDecode(buf) ==
  LET failed(e, rd) == [error |-> e, imageData |-> NoImage, meta |-> [encoding |-> "none"],
                        position |-> rd.pos]
      At(r, rd) == [error |-> r.error, imageData |-> r.imageData, meta |-> r.meta,
                    position |-> rd.pos]
      Ahead(type, a) ==
        IF a.error # "none" THEN failed(a.error, a.rd)
        ELSE At(IffFinish(IffScan(buf, [IffScanStart(type.rd) EXCEPT !.rasters = a.rasters],
                                  Len(buf))), a.rd)
      Scan(type, rd) ==
        IF TextDecode(type.bytes) \notin {IFF_CHUNK_ID_ILBM, IFF_CHUNK_ID_ACBM}
          THEN failed("PlanarCoderError", rd)
          ELSE Ahead(type, IffLookAhead(buf, rd))
      Form(c) ==
        IF c.rd.error # "none" THEN failed(c.rd.error, c.rd)
        ELSE IF c.id # IFF_CHUNK_ID_FORM THEN failed("PlanarCoderError", c.rd)
        ELSE Scan(IffR_readBytes(buf, c.reader, 4), c.rd)
  IN Form(IffR_readChunk(buf, IffChunkReader(0, Len(buf))))

----------------------------------------------------------------------------
(* depackVdatChunk  (src/formats/tiny/decode.js, lines 371-438)            *)

\* the writes of one `while (count-- > 0 && xOffset < bytesPerLine)` loop for
\* an even bytesPerLine: turn i stores the word bytes[2 * i + 1],
\* bytes[2 * i + 2] at xOffset + yOffset * bytesPerLine and steps down the
\* column, then to the next column of words.  [planeData, xOffset, yOffset]
VdatWrite(st, dim, bytes) ==
  LET first == (st.xOffset \div 2) * dim.height + st.yOffset
      turns == Len(bytes) \div 2
      Cell(k) == ((k % dim.bytesPerLine) \div 2) * dim.height + (k \div dim.bytesPerLine)
  IN [st EXCEPT !.planeData = [k \in 1..Len(st.planeData) |->
                                 IF Cell(k - 1) >= first /\ Cell(k - 1) < first + turns
                                   THEN bytes[2 * (Cell(k - 1) - first) + 1 + ((k - 1) % 2)]
                                   ELSE st.planeData[k]],
                 !.xOffset = 2 * ((first + turns) \div dim.height),
                 !.yOffset = (first + turns) % dim.height]

\* the body of the loop over the commands for the signed command byte
VdatCommand(buf, st, dim, command) ==
  LET left == IF st.xOffset >= dim.bytesPerLine THEN 0
              ELSE ((dim.bytesPerLine - st.xOffset) \div 2) * dim.height - st.yOffset
      counted == IF command = 0 \/ command = 1 THEN IffR_readUint(buf, st.rd, 2)
                 ELSE [value |-> IF command < 0 THEN 0 - command ELSE command, rd |-> st.rd]
      turns == Min(counted.value, left)
      Copy(rd) == \* each turn reads two bytes: readUint8 throws at the end of the chunk
        IF rd.pos + 2 * turns > rd.byteLength THEN [st EXCEPT !.error = "RangeError"]
        ELSE VdatWrite([st EXCEPT !.rd = [rd EXCEPT !.pos = @ + 2 * turns]], dim,
                       SubSeq(buf, rd.byteOffset + rd.pos + 1, rd.byteOffset + rd.pos + 2 * turns))
      Run(word) ==
        IF word.rd.error # "none" THEN [st EXCEPT !.error = "RangeError"]
        ELSE [VdatWrite([st EXCEPT !.rd = word.rd], dim,
                        [i \in 1..(2 * turns) |-> IF i % 2 = 1 THEN word.value \div 256
                                                  ELSE word.value % 256])
                EXCEPT !.done = IffR_eof(word.rd)]
  IN IF counted.rd.error # "none" THEN [st EXCEPT !.error = "RangeError"]
     ELSE IF command <= 0 THEN Copy(counted.rd)
     ELSE Run(IffR_readUint(buf, counted.rd, 2))

RECURSIVE VdatCommands(_, _, _, _, _)
\* for (let cmd = 0; cmd < commandCount; cmd++), left by `break` or a throw
VdatCommands(buf, st, dim, commands, cmd) ==
  IF cmd >= Len(commands) \/ st.done \/ st.error # "none" THEN st
  ELSE VdatCommands(buf, VdatCommand(buf, st, dim, Int8(commands[cmd + 1])), dim, commands, cmd + 1)

\* depackVdatChunk(reader, bytesPerLine, height) for an even bytesPerLine and
\* a chunk that holds the commandCount command bytes it announces:
\* [error, planeData]
depackVdatChunk(buf, rd, bytesPerLine, height) ==
  LET Out(st) == [error |-> st.error,
                  planeData |-> IF st.error = "none" THEN st.planeData ELSE <<>>]
      Loop(commands) ==
        Out(VdatCommands(buf, [rd |-> commands.rd, xOffset |-> 0, yOffset |-> 0,
                               planeData |-> Zeros(bytesPerLine * height),
                               error |-> "none", done |-> FALSE],
                         [bytesPerLine |-> bytesPerLine, height |-> height], commands.bytes, 0))
      Counted(count) ==
        IF count.rd.error # "none" THEN [error |-> "RangeError", planeData |-> <<>>]
        ELSE Loop(IffR_readBytes(buf, count.rd, count.value - 2))
  IN Counted(IffR_readUint(buf, rd, 2))

----------------------------------------------------------------------------
(* The IFF encoder and decoder called on images and on assembled files *)

\* the sequences that hold every element of the set S once
Orders(S) ==
  {q \in [1..Cardinality(S) -> S] : \A i, j \in 1..Cardinality(S) : q[i] = q[j] => i = j}

RECURSIVE IffW_chunks(_, _, _)
\* the chunks of ids order[from], order[from + 1], ... written one after the other
IffW_chunks(w, order, from) ==
  IF from > Len(order) THEN w
  ELSE IffW_chunks(IffW_chunk(w, order[from].id, order[from].data), order, from + 1)

\* a file assembled chunk by chunk: the outer chunk form with sub-type type
\* and, in this order, the chunks of ids in order; the BMHD chunk carries
\* the compression code given and the body is the plane data as encode returns it
IffFile(img, p, form, type, order, code) ==
  LET ilbm == type # IFF_CHUNK_ID_ACBM
      planeBytes == encode(img, p, [format |-> IF ilbm THEN ENCODING_FORMAT_LINE
                                               ELSE ENCODING_FORMAT_CONTIGUOUS]).buffer
      DataOf(id) ==
        IF id = IFF_CHUNK_ID_BMHD
          THEN BmhdBytes(img.width, img.height, getPlaneCountForIndexedPalette(p), code,
                         img.width, img.height)
        ELSE IF id = IFF_CHUNK_ID_CAMG THEN Uint32Bytes(AMIGA_MODE_LACE)
        ELSE IF id = IFF_CHUNK_ID_CMAP THEN CmapBytes(p)
        ELSE planeBytes
      w == IffW_write(IffW_startChunk(IffChunkWriter(Len(planeBytes) + 2048), form), type)
  IN IffW_endChunk(IffW_chunks(w, [i \in 1..Len(order) |->
                                      [id |-> order[i], data |-> DataOf(order[i])]], 1)).w.bytes

\* ids of the chunks of a complete file for the options, in the encoder's order
IffChunkIds(opts) ==
  <<IFF_CHUNK_ID_BMHD>>
    \o (IF opts.amigaLace THEN <<IFF_CHUNK_ID_CAMG>> ELSE <<>>)
    \o <<IFF_CHUNK_ID_CMAP,
         IF opts.encoding = IFF_ENCODING_FORMAT_ILBM THEN IFF_CHUNK_ID_BODY
         ELSE IFF_CHUNK_ID_ABIT>>

\* compression codes no branch of the decoder takes
BadCodes == {3, 200}

InitIff ==
  /\ \E height \in 1..MaxHeight, seed \in 0..MaxTile, n \in 1..MaxColors,
        bitsPerChannel \in {4, 8} :
       /\ palette = Palette(n, bitsPerChannel, FALSE)
       /\ imageData = Image(16, height, seed, toValueArray(resample(palette, 8)), n)
  /\ options \in [compression : {COMPRESSION_NONE, COMPRESSION_PACKBITS},
                  encoding : {IFF_ENCODING_FORMAT_ILBM, IFF_ENCODING_FORMAT_ACBM},
                  amigaLace : BOOLEAN]
  /\ buffer = <<>>
  /\ decoded = NoImage
  /\ ipr = NoReader
  /\ pc = NoCall
  /\ NoPack
  /\ NoIff
  /\ NoTools

\* buffer = encode(imageData, palette, options) of the IFF encoder
IffEncodeCall ==
  /\ pc.op = "none"
  /\ LET r == IffEncode(imageData, palette, options)
     IN /\ buffer' = r.buffer
        /\ pc' = [NoCall EXCEPT !.op = "iffEncode", !.error = r.error]
  /\ made' = [by |-> "encoder"]
  /\ UNCHANGED <<imageData, palette, options, decoded, ipr, reader, chunks, meta, packVars, toolVars>>

\* a file another writer assembled for the image: its chunks in any order,
\* or with one defect: a wrong outer tag, a wrong sub-type, no body, no
\* palette, or a compression code of BadCodes
IffAssemble ==
  /\ pc.op = "none"
  /\ options.compression = COMPRESSION_NONE
  /\ LET ids == IffChunkIds(options)
         all == {ids[i] : i \in 1..Len(ids)}
         type == IF options.encoding = IFF_ENCODING_FORMAT_ILBM
                   THEN IFF_CHUNK_ID_ILBM ELSE IFF_CHUNK_ID_ACBM
     IN \/ \E order \in Orders(all) :
             /\ made' = [by |-> "writer", defect |-> "none", order |-> order]
             /\ buffer' = IffFile(imageData, palette, IFF_CHUNK_ID_FORM, type, order, 0)
        \/ \E form \in {<<76, 73, 83, 84>>, <<102, 111, 114, 109>>} :
             /\ made' = [by |-> "writer", defect |-> "tag", order |-> ids]
             /\ buffer' = IffFile(imageData, palette, form, type, ids, 0)
        \/ \E other \in {<<80, 66, 77, 32>>, <<105, 108, 98, 109>>} :
             /\ made' = [by |-> "writer", defect |-> "type", order |-> ids]
             /\ buffer' = IffFile(imageData, palette, IFF_CHUNK_ID_FORM, other, ids, 0)
        \/ \E missing \in {IFF_CHUNK_ID_CMAP, ids[Len(ids)]} :
             \E order \in Orders(all \ {missing}) :
               /\ made' = [by |-> "writer", defect |-> "missing", order |-> order]
               /\ buffer' = IffFile(imageData, palette, IFF_CHUNK_ID_FORM, type, order, 0)
        \/ \E code \in BadCodes :
             /\ made' = [by |-> "writer", defect |-> "compression", order |-> ids]
             /\ buffer' = IffFile(imageData, palette, IFF_CHUNK_ID_FORM, type, ids, code)
  /\ pc' = [NoCall EXCEPT !.op = "iffAssemble"]
  /\ UNCHANGED <<imageData, palette, options, decoded, ipr, reader, chunks, meta, packVars, toolVars>>

\* { imageData: decoded, meta } = decode(buffer) of the IFF decoder; pc.cut is
\* the position of its main reader afterwards
IffDecodeCall ==
  /\ pc.op \in {"iffEncode", "iffAssemble"}
  /\ pc.error = "none"
  /\ LET r == IffDecode(buffer)
     IN /\ decoded' = r.imageData
        /\ meta' = r.meta
        /\ pc' = [NoCall EXCEPT !.op = "iffDecode", !.error = r.error, !.from = pc.op,
                                !.cut = r.position]
  /\ UNCHANGED <<imageData, palette, options, buffer, ipr, reader, chunks, made, packVars, toolVars>>

NextIff == IffEncodeCall \/ IffAssemble \/ IffDecodeCall

SpecIff == InitIff /\ [][NextIff]_vars

\* C3: for every image whose width is a multiple of 16 and whose colours
\* are all in the palette, and for both encodings and both compressions,
\* the IFF encoder completes, and decoding its output completes and returns
\* the width, height and pixels of the image and a palette of the same colours
C3_ContainerRoundTrip ==
  /\ (pc.op = "iffEncode" /\ imageData.width % 16 = 0 /\ AllInPalette)
       => pc.error = "none"
  /\ (pc.op = "iffDecode" /\ pc.from = "iffEncode")
       => /\ pc.error = "none"
          /\ decoded = imageData
          /\ toValueArray(meta.palette) = toValueArray(resample(palette, 8))

RECURSIVE FileChunks(_, _)
\* the chunks [id, data] that lie in a file from pos on, each starting on
\* an even offset
FileChunks(buf, pos) ==
  IF pos + 8 > Len(buf) THEN <<>>
  ELSE LET length == LengthField(buf, pos + 8)
       IN <<[id |-> SubSeq(buf, pos + 1, pos + 4),
             data |-> SubSeq(buf, pos + 9, Min(pos + 8 + length, Len(buf)))]>>
            \o FileChunks(buf, pos + 8 + length + (length % 2))

\* C30: in every file the IFF encoder returns, byte 10 of the BMHD chunk,
\* the compression mode, is 1 or 0 and tells what the body chunk holds:
\* when it is 1 the bytes of the body chunk are the packbits-packed planes
\* and when it is 0 they are the planes themselves, in an ILBM file (BODY)
\* and in an ACBM file (ABIT)
C30_CompressionByte ==
  (pc.op = "iffEncode" /\ pc.error = "none")
    => LET cs == FileChunks(buffer, 12)
           head == cs[CHOOSE i \in 1..Len(cs) : cs[i].id = IFF_CHUNK_ID_BMHD]
           body == cs[CHOOSE i \in 1..Len(cs) :
                        cs[i].id \in {IFF_CHUNK_ID_BODY, IFF_CHUNK_ID_ABIT}]
           raw == encode(imageData, palette,
                         [format |-> IF options.encoding = IFF_ENCODING_FORMAT_ILBM
                                       THEN ENCODING_FORMAT_LINE
                                       ELSE ENCODING_FORMAT_CONTIGUOUS]).buffer
           packed == pack(raw, CeilDiv(imageData.width, 8))
       IN /\ \E i \in 1..Len(cs) : cs[i].id = IFF_CHUNK_ID_BMHD
          /\ \E i \in 1..Len(cs) : cs[i].id \in {IFF_CHUNK_ID_BODY, IFF_CHUNK_ID_ABIT}
          /\ head.data[11] \in {0, 1}
          /\ head.data[11] = 1 => (packed.error = "none" /\ body.data = packed.data)
          /\ head.data[11] = 0 => body.data = raw

C8_ChunkOrder ==
  (pc.op = "iffDecode" /\ pc.from = "iffAssemble" /\ made.defect = "none")
    => LET Same(r) == pc.error = r.error /\ decoded = r.imageData /\ meta = r.meta
       IN /\ pc.error = "none"
          /\ Same(IffDecode(IffFile(imageData, palette, IFF_CHUNK_ID_FORM,
                                    IF options.encoding = IFF_ENCODING_FORMAT_ILBM
                                      THEN IFF_CHUNK_ID_ILBM ELSE IFF_CHUNK_ID_ACBM,
                                    IffChunkIds(options), 0)))

\* C9: decoding a file with a BODY chunk whose header holds a compression
\* code other than 0, 1 and 2 raises the format error and returns no image:
\* the bytes of the body are never taken as plane data
C9_UnsupportedCompression ==
  (pc.op = "iffDecode" /\ pc.from = "iffAssemble" /\ made.defect = "compression"
     /\ options.encoding = IFF_ENCODING_FORMAT_ILBM)
    => /\ pc.error = "PlanarCoderError"
       /\ decoded = NoImage
       /\ meta = [encoding |-> "none"]

\* an ILBM file of a two-plane image with an unknown compression code was decoded
C9_Witness ==
  /\ pc.op = "iffDecode" /\ pc.from = "iffAssemble"
  /\ made.defect = "compression"
  /\ options.encoding = IFF_ENCODING_FORMAT_ILBM
  /\ Len(palette.colors) = 3
  /\ pc.error = "PlanarCoderError"

----------------------------------------------------------------------------
(* The IFF decoder called on files with per-scanline palettes, with the    *)
(* HAM flag, and with data after the outer chunk                           *)

MaxRasters == 2       \* palettes a CTBL, SHAM or RAST chunk of a file holds

\* the 32 bytes of the k-th line palette of a file: 16 words 0x0RGB, of
\* 3-bit channels for a RAST chunk and of 4-bit channels otherwise
LineWords(k, max) ==
  [i \in 1..32 |->
     LET c == (i - 1) \div 2
     IN IF i % 2 = 1 THEN (k * 3 + c) % (max + 1)
        ELSE ((c + k) % (max + 1)) * 16 + (max - ((c + 2 * k) % (max + 1)))]

\* the bytes of a RAST chunk of n entries, for the lines 0, step, 2 * step, ..
RastBytes(n, step) ==
  [i \in 1..(34 * n) |->
     LET k == (i - 1) \div 34
     IN IF (i - 1) % 34 < 2 THEN Uint16Bytes(k * step)[((i - 1) % 34) + 1]
        ELSE LineWords(k, 7)[((i - 1) % 34) - 1]]

\* the bytes of a CTBL or BEAM chunk of n palettes; a SHAM chunk has a word before them
CtblBytes(n) == [i \in 1..(32 * n) |-> LineWords((i - 1) \div 32, 15)[((i - 1) % 32) + 1]]

\* what follows the outer chunk of a file: nothing, a whole RAST chunk of
\* 200 entries, one of 100 entries, a chunk of 6800 bytes with another tag,
\* or the tag RAST and the length 6800 with no byte after them
Trailings == {"none", "RAST6800", "RAST3400", "TSAR6800", "RAST"}

TrailingBytes(kind) ==
  IF kind = "none" THEN <<>>
  ELSE IF kind = "RAST6800" THEN IFF_CHUNK_ID_RAST \o Uint32Bytes(6800) \o RastBytes(200, 1)
  ELSE IF kind = "RAST3400" THEN IFF_CHUNK_ID_RAST \o Uint32Bytes(3400) \o RastBytes(100, 1)
  ELSE IF kind = "TSAR6800" THEN <<84, 83, 65, 82>> \o Uint32Bytes(6800) \o RastBytes(200, 1)
  ELSE IFF_CHUNK_ID_RAST \o Uint32Bytes(6800)

\* the number of bit planes of a file: 3 for a HAM file (one bit of data,
\* two base colours), else what the palette needs, and the planes the
\* scenario adds to them
RasterPlanes(p, o) ==
  (IF o.ham THEN 3 ELSE getPlaneCountForIndexedPalette(p))
    + (IF "extra" \in DOMAIN o THEN o.extra ELSE 0)

\* the file for the image, the base palette and the scenario o: BMHD, CAMG
\* with the HAM flag, CMAP, the palette chunk, then the plane data, which
\* an ILBM file holds line-interleaved in BODY and an ACBM file contiguous
\* in ABIT when laidOut, and the trailing bytes; the header holds the width
\* of the scenario when it has one, and the lines of the planes are those
\* of the image
RasterFile(img, p, o, laidOut) ==
  LET ilbm == o.type = IFF_CHUNK_ID_ILBM
      planes == RasterPlanes(p, o)
      planeBytes == encode(img, p, [format |-> IF ilbm \/ ~laidOut THEN ENCODING_FORMAT_LINE
                                               ELSE ENCODING_FORMAT_CONTIGUOUS,
                                    planes |-> planes]).buffer
      lines == IF o.chunk = <<>> THEN <<>>
               ELSE IF o.chunk = IFF_CHUNK_ID_RAST
                 THEN <<[id |-> o.chunk, data |-> RastBytes(o.count, 1)]>>
               ELSE <<[id |-> o.chunk,
                       data |-> (IF o.chunk = IFF_CHUNK_ID_SHAM THEN <<0, 0>> ELSE <<>>)
                                  \o CtblBytes(o.count)]>>
      list == <<[id |-> IFF_CHUNK_ID_BMHD,
                 data |-> BmhdBytes(IF "width" \in DOMAIN o THEN o.width ELSE img.width,
                                    img.height, planes, COMPRESSION_NONE,
                                    img.width, img.height)]>>
              \o (IF o.ham THEN <<[id |-> IFF_CHUNK_ID_CAMG, data |-> Uint32Bytes(AMIGA_MODE_HAM)]>>
                  ELSE <<>>)
              \o <<[id |-> IFF_CHUNK_ID_CMAP, data |-> CmapBytes(p)]>>
              \o lines
              \o <<[id |-> IF ilbm THEN IFF_CHUNK_ID_BODY ELSE IFF_CHUNK_ID_ABIT,
                    data |-> planeBytes]>>
      w == IffW_write(IffW_startChunk(IffChunkWriter(Len(planeBytes) + 2048), IFF_CHUNK_ID_FORM),
                      o.type)
  IN IffW_endChunk(IffW_chunks(w, list, 1)).w.bytes \o TrailingBytes(o.trailing)

\* options is the scenario of the file: its sub-type, the HAM flag, the
\* palette chunk (<<>> for none) and the number of its palettes, and what follows the outer
\* chunk; files with trailing data hold a flat image and no palette chunk
InitRaster ==
  /\ options \in {o \in [type : {IFF_CHUNK_ID_ILBM, IFF_CHUNK_ID_ACBM}, ham : BOOLEAN,
                         chunk : {<<>>, IFF_CHUNK_ID_CTBL, IFF_CHUNK_ID_SHAM, IFF_CHUNK_ID_RAST},
                         count : 1..MaxRasters, trailing : Trailings] :
                    /\ o.chunk = <<>> => o.count = 1
                    /\ o.trailing # "none" => (o.chunk = <<>> /\ ~o.ham)}
  /\ \E height \in 1..MaxHeight, seed \in 0..MaxTile, n \in 2..MaxColors :
       /\ options.trailing # "none" => (seed = 0 /\ n = 2)
       /\ palette = Palette(n, 8, FALSE)
       /\ imageData = Image(16, height, seed, toValueArray(palette), n)
  /\ buffer = <<>>
  /\ decoded = NoImage
  /\ ipr = NoReader
  /\ pc = NoCall
  /\ NoPack
  /\ NoIff
  /\ NoTools

\* the file of the scenario, as another writer assembled it
RasterAssemble ==
  /\ pc.op = "none"
  /\ buffer' = RasterFile(imageData, palette, options, TRUE)
  /\ made' = [by |-> "writer", defect |-> "none", order |-> <<>>]
  /\ pc' = [NoCall EXCEPT !.op = "iffAssemble"]
  /\ UNCHANGED <<imageData, palette, options, decoded, ipr, reader, chunks, meta, packVars, toolVars>>

NextRaster == RasterAssemble \/ IffDecodeCall

SpecRaster == InitRaster /\ [][NextRaster]_vars

\* C12: the decoder reads the plane bytes in the layout of the body-chunk
\* tag, contiguous for ABIT and line-interleaved for BODY, whichever way the
\* image is assembled: an ACBM file, whose ABIT chunk holds the planes
\* contiguous, decodes as the ILBM file does whose BODY chunk holds the
\* same pixels line-interleaved
C12_LayoutByTag ==
  (pc.op = "iffDecode" /\ options.type = IFF_CHUNK_ID_ACBM)
    => LET Same(twin) == pc.error = twin.error /\ decoded = twin.imageData
       IN Same(IffDecode(RasterFile(imageData, palette,
                                    [options EXCEPT !.type = IFF_CHUNK_ID_ILBM], TRUE)))

\* C13: a file whose palette chunk holds fewer palettes than the image has
\* lines decodes, and line y of the image is decoded with palette
\* floor(y * count / height) of the chunk, in a HAM file and in a file
\* decoded by the per-scanline raster decode alike
C13_RasterIndexMapping ==
  (pc.op = "iffDecode" /\ options.chunk \in {IFF_CHUNK_ID_CTBL, IFF_CHUNK_ID_SHAM}
     /\ options.count < imageData.height)
    => LET height == imageData.height
           planes == RasterPlanes(palette, options)
           body == encode(imageData, palette,
                          [format |-> IF options.type = IFF_CHUNK_ID_ILBM THEN ENCODING_FORMAT_LINE
                                      ELSE ENCODING_FORMAT_CONTIGUOUS,
                           planes |-> planes]).buffer
           given == IffSlicedPalettes(CtblBytes(options.count), 0).rasters
           mapped == [y \in 1..height |-> given[((y - 1) * options.count) \div height + 1]]
           Same(d) == pc.error = "none" /\ decoded = d.imageData
       IN IF options.ham
            THEN Same(decodeSlicedHamImage(body, 16, height, planes, mapped))
            ELSE Same(decodeRasterImage(body, 16, height, planes, palette, mapped))

\* C14 as stated: the data after the outer chunk is consumed only if it
\* starts with the tag RAST and a declared length of 200 x 17 = 3400 bytes;
\* otherwise the main reader stays at the end of the outer chunk and the
\* file decodes as it does without that data
C14_LookAhead3400 ==
  pc.op = "iffDecode"
    => LET end == 8 + LengthField(buffer, 8) + (LengthField(buffer, 8) % 2)
           raster == /\ Len(buffer) >= end + 8
                     /\ SubSeq(buffer, end + 1, end + 4) = IFF_CHUNK_ID_RAST
                     /\ LengthField(buffer, end + 8) = 3400
           Same(d) == pc.error = d.error /\ decoded = d.imageData /\ meta = d.meta
       IN /\ pc.cut > end => raster
          /\ ~raster => (pc.cut = end /\ Same(IffDecode(SubSeq(buffer, 1, end))))

\* C14, corrected: the data after the outer chunk is consumed only if it
\* starts with the tag RAST and a declared length of 6800 bytes (200 entries
\* of 34 bytes), and it is consumed when those 6800 bytes follow: the
\* palettes returned are then its 200 line palettes.  Otherwise the main
\* reader stays at the end of the outer chunk and the file decodes as it
\* does without that data
C14_LookAhead6800 ==
  pc.op = "iffDecode"
    => LET end == 8 + LengthField(buffer, 8) + (LengthField(buffer, 8) % 2)
           raster == /\ Len(buffer) >= end + 8
                     /\ SubSeq(buffer, end + 1, end + 4) = IFF_CHUNK_ID_RAST
                     /\ LengthField(buffer, end + 8) = 6800
           Same(d) == pc.error = d.error /\ decoded = d.imageData /\ meta = d.meta
       IN /\ pc.cut > end => raster
          /\ ~raster => (pc.cut = end /\ Same(IffDecode(SubSeq(buffer, 1, end))))
          /\ (raster /\ Len(buffer) >= end + 8 + 6800)
               => /\ pc.cut = end + 8 + 6800
                  /\ pc.error = "none"
                  /\ meta.palette = extractRasterData(SubSeq(buffer, end + 9, end + 6808)).rasters

\* a decoded file whose trailing RAST chunk of 6800 bytes gave 200 palettes
C14_Witness ==
  /\ pc.op = "iffDecode"
  /\ pc.error = "none"
  /\ options.trailing = "RAST6800"
  /\ pc.cut = Len(buffer)
  /\ Len(meta.palette) = 200
  /\ decoded.height = imageData.height

----------------------------------------------------------------------------
(* The IFF decoder on files whose width is not a multiple of 16 or whose   *)
(* header has more planes than the palette needs                           *)
(* (src/formats/tiny/decode.js, src/decode.js, src/formats/iff/HamReader.js) *)

\* options is the scenario of the file: its sub-type, the HAM flag, the
\* palette chunk (<<>> for none, or CTBL with a palette for each line), the
\* width in the header and the planes the header has beyond those the
\* palette needs; imageData holds the 16 pixels of each stored line
InitGeometry ==
  /\ \E height \in 1..MaxHeight, seed \in 1..MaxTile, n \in 2..MaxColors :
       /\ palette = Palette(n, 8, FALSE)
       /\ imageData = Image(16, height, seed, toValueArray(palette), n)
       /\ options \in {o \in [type : {IFF_CHUNK_ID_ILBM, IFF_CHUNK_ID_ACBM}, ham : BOOLEAN,
                              chunk : {<<>>, IFF_CHUNK_ID_CTBL}, count : 1..MaxHeight,
                              trailing : {"none"}, width : {8, 16}, extra : 0..1] :
                         /\ o.count = IF o.chunk = <<>> THEN 1 ELSE height
                         /\ o.extra = 1 => (~o.ham /\ o.chunk = <<>>)}
  /\ buffer = <<>>
  /\ decoded = NoImage
  /\ ipr = NoReader
  /\ pc = NoCall
  /\ NoPack
  /\ NoIff
  /\ NoTools

\* the file of the scenario, as another writer assembled it
GeometryAssemble ==
  /\ pc.op = "none"
  /\ buffer' = RasterFile(imageData, palette, options, TRUE)
  /\ made' = [by |-> "writer", defect |-> "none", order |-> <<>>]
  /\ pc' = [NoCall EXCEPT !.op = "iffAssemble"]
  /\ UNCHANGED <<imageData, palette, options, decoded, ipr, reader, chunks, meta, packVars, toolVars>>

NextGeometry == GeometryAssemble \/ IffDecodeCall

SpecGeometry == InitGeometry /\ [][NextGeometry]_vars

\* C29: whichever way the IFF decoder assembles the image, Hold-and-Modify,
\* per-scanline raster or plain, it reads the plane bytes of the body with
\* the geometry the scan produced: the layout recorded for the body chunk
\* (meta.encoding), the plane count of the header, and lines of
\* ceil(width / 16) * 2 bytes per plane
C29_AssemblyGeometry ==
  pc.op = "iffDecode" =>
    LET width == options.width
        height == imageData.height
        planes == RasterPlanes(palette, options)
        ilbm == options.type = IFF_CHUNK_ID_ILBM
        stride == CeilDiv(width, 16) * 2
        body == encode(imageData, palette,
                       [format |-> IF ilbm THEN ENCODING_FORMAT_LINE
                                   ELSE ENCODING_FORMAT_CONTIGUOUS,
                        planes |-> planes]).buffer
        Offset(x, y, p) ==
          IF ilbm THEN (y * planes + p) * stride + (x \div 8)
          ELSE p * stride * height + y * stride + (x \div 8)
        Bit(x, y, p) == IF p >= planes THEN 0
                        ELSE (body[Offset(x, y, p) + 1] \div (2^(7 - (x % 8)))) % 2
        Index(x, y) == Bit(x, y, 0) + 2 * Bit(x, y, 1) + 4 * Bit(x, y, 2) + 8 * Bit(x, y, 3)
        rd == IF ilbm THEN BitplaneReader_line(planes, stride * 8)
              ELSE BitplaneReader_contiguous(planes, stride * 8, height)
        given == IffSlicedPalettes(CtblBytes(options.count), 0).rasters
        Colors(y) == IF options.chunk = <<>> THEN toValueArray(resample(palette, 8))
                     ELSE toValueArray(resample(given[y + 1], 8))
        Ham(sliced, p) ==
          HamLoop(body, given, sliced, [width |-> width, height |-> height],
                  [h |-> [HamReader(planes, width, p) EXCEPT !.rd = rd], data |-> <<>>,
                   x |-> 0, y |-> 0, error |-> "none"]).data
    IN /\ pc.error = "none"
       /\ meta.encoding = IF ilbm THEN IFF_ENCODING_FORMAT_ILBM ELSE IFF_ENCODING_FORMAT_ACBM
       /\ meta.planeCount = planes
       /\ decoded.width = width
       /\ decoded.height = height
       /\ IF options.ham
            THEN decoded.data = Ham(options.chunk # <<>>,
                                    IF options.chunk = <<>> THEN palette ELSE given[1])
            ELSE /\ Len(decoded.data) = width * height
                 /\ \A y \in 0..(height - 1), x \in 0..(width - 1) :
                      decoded.data[y * width + x + 1] = IPW_write(Colors(y), Index(x, y))

----------------------------------------------------------------------------
(* depackVdatChunk called on the data of VDAT chunks *)

MaxVdat == 2          \* commands of a chunk
MaxCut == 3           \* bytes missing at the end of a chunk

\* the commands of the chunks: [cmd |-> the signed command byte, data |-> the
\* bytes it takes from the data, words |-> the words it stands for]: copies
\* of 2 words and of 1 word, a copy and a run whose count is in the data, a run of 3
VdatCommandSet ==
  {[cmd |-> 0 - 2, data |-> <<1, 2, 3, 4>>, words |-> <<<<1, 2>>, <<3, 4>>>>],
   [cmd |-> 0 - 1, data |-> <<5, 6>>, words |-> <<<<5, 6>>>>],
   [cmd |-> 0, data |-> <<0, 2, 7, 8, 9, 10>>, words |-> <<<<7, 8>>, <<9, 10>>>>],
   [cmd |-> 1, data |-> <<0, 2, 200, 11>>, words |-> <<<<200, 11>>, <<200, 11>>>>],
   [cmd |-> 3, data |-> <<12, 13>>, words |-> <<<<12, 13>>, <<12, 13>>, <<12, 13>>>>]}

\* the bytes of the chunk for the commands: the count of command bytes plus
\* 2, the command bytes, then the data of the commands in their order
VdatBytes(cmds) ==
  Uint16Bytes(Len(cmds) + 2) \o [i \in 1..Len(cmds) |-> (cmds[i].cmd + 256) % 256]
    \o Flatten([i \in 1..Len(cmds) |-> cmds[i].data])

\* options holds the commands, the bytes cut off the end of their data and
\* the size of the plane; compressedData is the chunk
InitVdat ==
  /\ \E k \in 1..MaxVdat, cut \in 0..MaxCut, bytesPerLine \in {2, 4}, height \in 1..MaxHeight :
       \E cmds \in [1..k -> VdatCommandSet] :
         /\ options = [cmds |-> cmds, cut |-> cut, bytesPerLine |-> bytesPerLine,
                       height |-> height]
         /\ compressedData = SubSeq(VdatBytes(cmds), 1, Len(VdatBytes(cmds)) - cut)
  /\ planeLength = 0
  /\ planeData = <<>>
  /\ outputBuffer = <<>>
  /\ imageData = NoImage
  /\ palette = Palette(1, 8, FALSE)
  /\ buffer = <<>>
  /\ decoded = NoImage
  /\ ipr = NoReader
  /\ pc = NoCall
  /\ NoIff
  /\ NoTools

\* outputBuffer = depackVdatChunk(reader, bytesPerLine, height) for a reader of the chunk
VdatCall ==
  /\ pc.op = "none"
  /\ LET r == depackVdatChunk(compressedData, IffChunkReader(0, Len(compressedData)),
                              options.bytesPerLine, options.height)
     IN /\ outputBuffer' = r.planeData
        /\ pc' = [NoCall EXCEPT !.op = "depackVdat", !.error = r.error]
  /\ UNCHANGED <<planeData, planeLength, compressedData, codecVars, iffVars, toolVars>>

NextVdat == VdatCall

SpecVdat == InitVdat /\ [][NextVdat]_vars

\* C23: depackVdatChunk does not fail on input that overruns.  The plane it
\* returns holds, column of words by column of words, the words of the
\* commands up to the size of the plane and nothing outside it, and when
\* the data ends inside a command, the words decoded up to there: those of
\* the commands before it and, for a copy, the whole words that are left
C23_VdatTolerant ==
  pc.op = "depackVdat"
    => LET cmds == options.cmds
           dim == [bytesPerLine |-> options.bytesPerLine, height |-> options.height]
           start(i) == Len(Flatten([j \in 1..(i - 1) |-> cmds[j].data]))
           avail == start(Len(cmds) + 1) - options.cut
           Yield(i) == IF start(i + 1) <= avail THEN cmds[i].words
                       ELSE IF cmds[i].cmd > 0 \/ start(i) > avail THEN <<>>
                       ELSE LET got == (avail - start(i) - (IF cmds[i].cmd = 0 THEN 2 ELSE 0)) \div 2
                            IN SubSeq(cmds[i].words, 1, Max(got, 0))
           words == Flatten([i \in 1..Len(cmds) |-> Yield(i)])
           Cell(k) == ((k % dim.bytesPerLine) \div 2) * dim.height + (k \div dim.bytesPerLine)
       IN /\ pc.error = "none"
          /\ outputBuffer = [k \in 1..(dim.bytesPerLine * dim.height) |->
                               IF Cell(k - 1) < Len(words)
                                 THEN words[Cell(k - 1) + 1][1 + ((k - 1) % 2)]
                                 ELSE 0]

----------------------------------------------------------------------------
(* Calls of an IffChunkWriter  (src/formats/iff/IffChunkWriter.js)          *)

MaxCalls == 5         \* calls made on one writer
MaxDepth == 2         \* chunks open at the same time
MaxBuffer == 24       \* byteLength of the buffer the writer fills

\* the bytes a write call stores, by the method called
WriteKinds ==
  [writeUint8 |-> <<7>>, writeUint16 |-> Uint16Bytes(258), writeUint32 |-> Uint32Bytes(16909060),
   writeInt32 |-> Uint32Bytes(84281096), writeBytes |-> <<9, 8, 7>>]

\* chunks holds, for each chunk that is open, the bytes emitted after its header
InitWriter ==
  /\ writer = IffChunkWriter(MaxBuffer)
  /\ chunks = <<>>
  /\ made = [by |-> "calls", count |-> 0, result |-> 0]
  /\ reader = [byteOffset |-> 0, byteLength |-> 0, pos |-> 0, error |-> "none"]
  /\ meta = [encoding |-> "none"]
  /\ ham = [error |-> "none"]
  /\ resampled = [error |-> "none"]
  /\ pc = NoCall
  /\ NoCodec
  /\ NoPack

\* the calls of the model end with the first exception
WriterCallable == writer.error = "none" /\ made.count < MaxCalls

\* startChunk(type)
StartChunkCall ==
  /\ WriterCallable
  /\ Len(writer.stack) < MaxDepth
  /\ \E type \in {IFF_CHUNK_ID_FORM, IFF_CHUNK_ID_BODY} :
       /\ writer' = IffW_startChunk(writer, type)
       /\ pc' = [NoCall EXCEPT !.op = "startChunk", !.error = writer'.error, !.dest = type]
  /\ chunks' = IF writer'.error # "none" THEN chunks
               ELSE Append([i \in 1..Len(chunks) |-> chunks[i] + (writer.pos % 2) + 8], 0)
  /\ made' = [made EXCEPT !.count = @ + 1]
  /\ UNCHANGED <<reader, meta, ham, resampled, codecVars, packVars>>

\* writeUint8 / writeUint16 / writeUint32 / writeInt32 / writeBytes
WriteCall ==
  /\ WriterCallable
  /\ \E kind \in DOMAIN WriteKinds :
       /\ writer' = IF kind = "writeInt32" THEN IffW_writeInt32(writer, 84281096)
                    ELSE IffW_write(writer, WriteKinds[kind])
       /\ pc' = [NoCall EXCEPT !.op = kind, !.error = writer'.error]
       /\ chunks' = IF writer'.error # "none" THEN chunks
                    ELSE [i \in 1..Len(chunks) |-> chunks[i] + Len(WriteKinds[kind])]
  /\ made' = [made EXCEPT !.count = @ + 1]
  /\ UNCHANGED <<reader, meta, ham, resampled, codecVars, packVars>>

\* endChunk() while a chunk is open
EndChunkCall ==
  /\ WriterCallable
  /\ writer.stack # <<>>
  /\ LET e == IffW_endChunk(writer)
     IN /\ writer' = e.w
        /\ made' = [made EXCEPT !.count = @ + 1, !.result = e.result]
  /\ chunks' = SubSeq(chunks, 1, Len(chunks) - 1)
  /\ pc' = [NoCall EXCEPT !.op = "endChunk"]
  /\ UNCHANGED <<reader, meta, ham, resampled, codecVars, packVars>>

NextWriter == StartChunkCall \/ WriteCall \/ EndChunkCall

SpecWriter == InitWriter /\ [][NextWriter]_vars

\* C11: in every properly nested sequence of startChunk, write and endChunk
\* calls, endChunk closes the chunk opened last among those still open, sets
\* its length field to the number of bytes emitted after its 8-byte header
\* (headers of nested chunks and pad bytes included) and returns that number
\* plus 8; and every chunk tag starts at an even offset
C11_EndChunkLength ==
  [][/\ pc'.op = "endChunk"
        => LET offset == writer.stack[Len(writer.stack)]
               emitted == chunks[Len(chunks)]
           IN /\ writer'.stack = SubSeq(writer.stack, 1, Len(writer.stack) - 1)
              /\ LengthField(writer'.bytes, offset) = emitted
              /\ made'.result = emitted + 8
     /\ (pc'.op = "startChunk" /\ pc'.error = "none")
        => LET offset == writer'.stack[Len(writer'.stack)]
           IN /\ (offset - 8) % 2 = 0
              /\ SubSeq(writer'.bytes, offset - 7, offset - 4) = pc'.dest]_vars

----------------------------------------------------------------------------
(* Calls of a HamReader on the plane data of an image of HamWidth pixels    *)
(* by 2 lines                                                               *)

MaxHam == 2           \* raw values chosen freely; the pixels after them repeat them
HamWidth == 8
HamPlanesSet == {3, 6}

\* raw values of a pixel: base colours, and commands 1, 2, 3 with data
\* 0, half of the range, and the largest value
HamRaws(planes) ==
  LET n == 2^(planes - 2)
  IN {0, n - 1, n + (n - 1), 2 * n, 3 * n + (n \div 2), 3 * n + (n - 1)}

\* the line-interleaved plane data of the raw values, as BitplaneWriter.line stores them
HamPlaneData(raws, planes, width) ==
  LET bytesPerLine == CeilDiv(width, 8)
      Bit(k, j) == LET y == k \div (bytesPerLine * planes)
                       plane == (k \div bytesPerLine) % planes
                       x == (k % bytesPerLine) * 8 + j
                   IN IF x < width THEN (raws[y * width + x + 1] \div (2^plane)) % 2 ELSE 0
  IN [i \in 1..(bytesPerLine * planes * (Len(raws) \div width)) |->
        Bit(i - 1, 0) * 128 + Bit(i - 1, 1) * 64 + Bit(i - 1, 2) * 32 + Bit(i - 1, 3) * 16
          + Bit(i - 1, 4) * 8 + Bit(i - 1, 5) * 4 + Bit(i - 1, 6) * 2 + Bit(i - 1, 7)]

\* the two base palettes of n colours a HamReader is given
HamPalettes(n) == {Palette(n, 8, FALSE), resample(Palette(n, 4, FALSE), 8)}

\* ham: the reader h, the number of #step() calls made, and the raw value
\* and the colour before the last of them; pc.from is the call made before
InitHam ==
  /\ \E planes \in HamPlanesSet :
       /\ palette = Palette(2^(planes - 2), 8, FALSE)
       /\ \E seed \in [1..MaxHam -> HamRaws(planes)] :
            buffer = HamPlaneData([i \in 1..(2 * HamWidth) |-> seed[((i - 1) % MaxHam) + 1]],
                                  planes, HamWidth)
       /\ ham = [h |-> HamReader(planes, HamWidth, palette), steps |-> 0, raw |-> undefined,
                 prev |-> <<>>, error |-> "none"]
  /\ imageData = NoImage
  /\ options = [planes |-> 0, format |-> ENCODING_FORMAT_LINE]
  /\ decoded = NoImage
  /\ ipr = NoReader
  /\ writer = [error |-> "none"]
  /\ resampled = [error |-> "none"]
  /\ pc = NoCall
  /\ NoPack
  /\ NoIff

\* read()
HamRead ==
  /\ ham.steps < 2 * HamWidth
  /\ ham' = [ham EXCEPT !.h = Ham_step(buffer, ham.h), !.steps = @ + 1,
                        !.raw = BitplaneReader_read(buffer, ham.h.rd).color,
                        !.prev = ham.h.currentColor]
  /\ pc' = [NoCall EXCEPT !.op = "hamRead", !.from = pc.op]
  /\ UNCHANGED <<imageData, palette, options, buffer, decoded, ipr, writer, resampled, packVars, iffVars>>

\* advance(pixels)
HamAdvance ==
  /\ \E pixels \in 1..MaxSkip :
       /\ ham.steps + pixels <= 2 * HamWidth
       /\ ham' = [ham EXCEPT !.h = Ham_advance(buffer, ham.h, pixels), !.steps = @ + pixels,
                             !.raw = undefined, !.prev = <<>>]
  /\ pc' = [NoCall EXCEPT !.op = "hamAdvance", !.from = pc.op]
  /\ UNCHANGED <<imageData, palette, options, buffer, decoded, ipr, writer, resampled, packVars, iffVars>>

\* setPalette(palette) of another palette
HamSetPalette ==
  /\ \E p \in HamPalettes(Len(palette.colors)) \ {palette} :
       /\ palette' = p
       /\ ham' = [ham EXCEPT !.h = Ham_setPalette(ham.h, p)]
  /\ pc' = [NoCall EXCEPT !.op = "hamSetPalette", !.from = pc.op]
  /\ UNCHANGED <<imageData, options, buffer, decoded, ipr, writer, resampled, packVars, iffVars>>

NextHam == HamRead \/ HamAdvance \/ HamSetPalette

SpecHam == InitHam /\ [][NextHam]_vars

\* C15: a step on a raw value c below 2^(planes-2) makes base-palette entry
\* c the current colour; a step on any other c replaces one of the red,
\* green and blue bytes of the current colour, the one its top two bits
\* select (1 blue, 2 red, 3 green), and leaves the two others and the
\* alpha byte as they were before the step
C15_HamStepFrame ==
  [][pc'.op = "hamRead"
       => LET c == BitplaneReader_read(buffer, ham.h.rd).color
              n == 2^ham.h.planes
              channel == CASE c \div n = 1 -> 3 [] c \div n = 2 -> 1 [] c \div n = 3 -> 2
          IN IF c < n
               THEN ham'.h.currentColor = toValueArray(palette)[c + 1]
               ELSE \A j \in (1..4) \ {channel} :
                      ColorBytes(ham'.h.currentColor)[j] = ColorBytes(ham.h.currentColor)[j]]_vars

\* a read patched one channel of a colour taken from the palette before
C15_Witness ==
  /\ pc.op = "hamRead"
  /\ ham.raw > ham.h.mask
  /\ ham.prev # <<>>
  /\ ham.h.currentColor # ham.prev
  /\ ham.h.planes = 4

\* C16: a modify step scales its data bits to the range 0..255 of the
\* channel it patches: data 0 gives 0 and the largest data value,
\* 2^(planes-2) - 1, gives 255
C16_HamScale ==
  (pc.op = "hamRead" /\ ham.raw > ham.h.mask)
    => LET n == ham.h.mask + 1
           data == ham.raw % n
           value == ColorBytes(ham.h.currentColor)[HamChannel(ham.raw \div n)]
       IN /\ data = 0 => value = 0
          /\ data = n - 1 => value = 255

\* C17: setPalette changes neither the current colour nor the cursor, and
\* a modify command in the first pixel of the second scanline patches the
\* colour the last pixel of the first scanline left, also when the palette
\* was set in between
C17_HamNoReset ==
  [][/\ pc'.op = "hamSetPalette"
        => /\ ham'.h.currentColor = ham.h.currentColor
           /\ ham'.h.rd = ham.h.rd
     /\ (pc'.op = "hamRead" /\ ham.steps = HamWidth /\ ham'.raw > ham.h.mask)
        => LET channel == HamChannel(ham'.raw \div (ham.h.mask + 1))
           IN /\ ham'.h.rd.line = 1
              /\ \A j \in (1..4) \ {channel} :
                   ColorBytes(ham'.h.currentColor)[j] = ColorBytes(ham.h.currentColor)[j]]_vars

\* the first pixel of the second scanline was a modify command read right
\* after a setPalette, and it patched the colour of the pixel before it
C17_Witness ==
  /\ pc.op = "hamRead"
  /\ ham.steps = HamWidth + 1
  /\ pc.from = "hamSetPalette"
  /\ ham.raw > ham.h.mask
  /\ ham.prev # <<>>
  /\ ham.h.currentColor # ham.prev
  /\ \E j \in 1..3 : ham.h.currentColor[j] = ham.prev[j] /\ ham.prev[j] # 0

----------------------------------------------------------------------------
(* Calls of an IndexedPalette: constructor, setColor, resample, and the     *)
(* helper createEhbPalette  (src/lib/IndexedPalette.js,                     *)
(* src/IndexedPaletteHelpers.js)                                            *)

MaxSets == 3          \* setColor calls made on one palette

\* the colours passed to setColor: one inside and one outside the channel range
SetColors == {<<5, 3, 7, 1>>, <<300, 0 - 1, 0, 6>>}

\* options holds the count and the bitsPerChannel given to the
\* constructor and the number of setColor calls made
InitPalette ==
  /\ \E count \in 1..MaxColors, bitsPerChannel \in {3, 4, 8}, full \in {0, 32, 33} :
       /\ palette = IF full = 0 THEN IndexedPalette(count, bitsPerChannel)
                    ELSE Palette(full, bitsPerChannel, FALSE)
       /\ options = [count |-> Len(palette.colors), bitsPerChannel |-> bitsPerChannel, sets |-> 0]
  /\ resampled = [error |-> "none"]
  /\ imageData = NoImage
  /\ buffer = <<>>
  /\ decoded = NoImage
  /\ ipr = NoReader
  /\ writer = [error |-> "none"]
  /\ ham = [error |-> "none"]
  /\ pc = NoCall
  /\ NoPack
  /\ NoIff

\* palette.setColor(index, r, g, b, a); pc.cut is the index
SetColorCall ==
  /\ options.sets < MaxSets
  /\ Len(palette.colors) < 32
  /\ \E index \in 0..Len(palette.colors), c \in SetColors :
       /\ palette' = setColor(palette, index, c[1], c[2], c[3], c[4])
       /\ pc' = [NoCall EXCEPT !.op = "setColor", !.cut = index]
  /\ options' = [options EXCEPT !.sets = @ + 1]
  /\ UNCHANGED <<imageData, buffer, decoded, ipr, toolVars, packVars, iffVars>>

\* resampled = palette.resample(bitsPerChannel); pc.cut is the bitsPerChannel
ResampleCall ==
  /\ \E bitsPerChannel \in {3, 4, 8} :
       /\ resampled' = [error |-> "none", palette |-> resample(palette, bitsPerChannel)]
       /\ pc' = [NoCall EXCEPT !.op = "resample", !.cut = bitsPerChannel]
  /\ UNCHANGED <<imageData, palette, options, buffer, decoded, ipr, writer, ham, packVars, iffVars>>

\* resampled = createEhbPalette(palette)
CreateEhbCall ==
  /\ resampled' = createEhbPalette(palette)
  /\ pc' = [NoCall EXCEPT !.op = "createEhbPalette", !.error = resampled'.error]
  /\ UNCHANGED <<imageData, palette, options, buffer, decoded, ipr, writer, ham, packVars, iffVars>>

NextPalette == SetColorCall \/ ResampleCall \/ CreateEhbCall

SpecPalette == InitPalette /\ [][NextPalette]_vars

\* C18: for a palette of at least 32 colours createEhbPalette returns a
\* palette of 64 entries with 8 bits per channel whose entries 0..31 are the
\* first 32 colours of the palette and whose entry 32 + i has, in each of r,
\* g and b, the integer floor(c / 2) for the channel c of entry i
C18_EhbHalves ==
  (pc.op = "createEhbPalette" /\ Len(palette.colors) >= 32)
    => /\ pc.error = "none"
       /\ Len(resampled.palette.colors) = 64
       /\ resampled.palette.bitsPerChannel = 8
       /\ LET q == resampled.palette
              Same(x, y) == x = y * q.den
          IN \A i \in 1..32 :
               /\ Same(q.colors[i].r, palette.colors[i].r)
               /\ Same(q.colors[i].g, palette.colors[i].g)
               /\ Same(q.colors[i].b, palette.colors[i].b)
               /\ Same(q.colors[i + 32].r, palette.colors[i].r \div 2)
               /\ Same(q.colors[i + 32].g, palette.colors[i].g \div 2)
               /\ Same(q.colors[i + 32].b, palette.colors[i].b \div 2)

\* C19: after any sequence of setColor calls the length of a palette is the
\* count given to its constructor, and a setColor with an index outside
\* 0 .. count - 1 stores no colour
C19_LengthFixed ==
  Len(palette.colors) = options.count

\* C20: resample(b) leaves the palette as it is and returns a palette of
\* the same length with b bits per channel in which every channel of every
\* colour is the integer round(old * (2^b - 1) / oldMax), within 0 .. 2^b - 1
C20_ResampleRounds ==
  pc.op = "resample"
    => LET q == resampled.palette
           newMax == MaxChannelValue(pc.cut)
           oldMax == MaxChannelValue(palette.bitsPerChannel)
           Rounded(x, old) == x = q.den * ((2 * old * newMax + oldMax) \div (2 * oldMax))
       IN /\ Len(q.colors) = Len(palette.colors)
          /\ q.bitsPerChannel = pc.cut
          /\ \A i \in 1..Len(q.colors) :
               palette.colors[i] # Hole
                 => /\ Rounded(q.colors[i].r, palette.colors[i].r)
                    /\ Rounded(q.colors[i].g, palette.colors[i].g)
                    /\ Rounded(q.colors[i].b, palette.colors[i].b)
                    /\ Rounded(q.colors[i].a, palette.colors[i].a)

----------------------------------------------------------------------------
(* An Atari ST / STe palette written by writeAtariStIndexedPalette and read *)
(* back by readAtariStIndexedPalette  (src/IndexedPaletteHelpers.js)        *)

\* writeAtariStIndexedPalette(buffer, palette) for a Uint8Array buffer and
\* a palette with every slot set to integers: [error, buffer].  Colour c
\* takes bytes 2c and 2c + 1; an STe channel is stored with its lowest bit
\* moved to bit 3: (v << 3 & 8) | (v >> 1 & 7)
writeAtariStIndexedPalette(buf, p) ==
  LET Ste(v) == ((v * 8) % 16) + ((v \div 2) % 8)
      Ch(v) == IF p.bitsPerChannel = 3 THEN v ELSE Ste(v)
      color(c) == p.colors[c]
      High(c) == Ch(color(c).r \div p.den)
      Low(c) == Ch(color(c).g \div p.den) * 16 + Ch(color(c).b \div p.den)
  IN IF p.bitsPerChannel \notin {3, 4} THEN [error |-> "PlanarCoderError", buffer |-> buf]
     ELSE [error |-> "none",
           buffer |-> [i \in 1..Len(buf) |->
                         IF i > 2 * Len(p.colors) THEN buf[i]
                         ELSE IF i % 2 = 1 THEN High((i + 1) \div 2) % 256
                         ELSE Low(i \div 2) % 256]]

\* the colours given to setColor(c, r, g, b) when the palettes are built;
\* a palette of 3 bits clamps them to 7
AtariColors == {<<0, 0, 0>>, <<2, 4, 14>>, <<5, 3, 7>>, <<15, 8, 1>>}

\* palette is a palette of 3, 4 or 8 bits per channel with every colour
\* set, buffer a zeroed Uint8Array of two bytes per colour
InitAtari ==
  /\ \E n \in 1..MaxColors, bitsPerChannel \in {3, 4, 8} :
       \E cs \in [1..n -> AtariColors] :
         palette = [IndexedPalette(n, bitsPerChannel) EXCEPT
                      !.colors = [c \in 1..n |->
                                    setColor(IndexedPalette(n, bitsPerChannel), c - 1,
                                             cs[c][1], cs[c][2], cs[c][3],
                                             MaxChannelValue(bitsPerChannel)).colors[c]]]
  /\ buffer = Zeros(2 * Len(palette.colors))
  /\ options = [count |-> Len(palette.colors)]
  /\ resampled = [error |-> "none"]
  /\ imageData = NoImage
  /\ decoded = NoImage
  /\ ipr = NoReader
  /\ writer = [error |-> "none"]
  /\ ham = [error |-> "none"]
  /\ pc = NoCall
  /\ NoPack
  /\ NoIff

\* writeAtariStIndexedPalette(buffer, palette)
AtariWrite ==
  /\ pc.op = "none"
  /\ LET w == writeAtariStIndexedPalette(buffer, palette)
     IN /\ buffer' = w.buffer
        /\ pc' = [NoCall EXCEPT !.op = "writeAtariSt", !.error = w.error]
  /\ UNCHANGED <<imageData, palette, options, decoded, ipr, toolVars, packVars, iffVars>>

\* resampled = readAtariStIndexedPalette(buffer, palette.length), of the
\* buffer that was written
AtariRead ==
  /\ pc.op = "writeAtariSt"
  /\ pc.error = "none"
  /\ resampled' = [error |-> "none",
                   palette |-> readAtariStIndexedPalette(buffer, Len(palette.colors))]
  /\ pc' = [NoCall EXCEPT !.op = "readAtariSt"]
  /\ UNCHANGED <<imageData, palette, options, buffer, decoded, ipr, writer, ham, packVars, iffVars>>

NextAtari == AtariWrite \/ AtariRead

SpecAtari == InitAtari /\ [][NextAtari]_vars

\* C25: the palette read back from the buffer that
\* writeAtariStIndexedPalette wrote for a palette of 3 or 4 bits per
\* channel has the bitsPerChannel of that palette and its r, g and b in
\* every entry, also when every channel of a 4-bit palette is even
C25_AtariRoundTrip ==
  pc.op = "readAtariSt" =>
    /\ resampled.palette.bitsPerChannel = palette.bitsPerChannel
    /\ Len(resampled.palette.colors) = Len(palette.colors)
    /\ \A c \in 1..Len(palette.colors) :
         /\ resampled.palette.colors[c].r * palette.den = palette.colors[c].r * resampled.palette.den
         /\ resampled.palette.colors[c].g * palette.den = palette.colors[c].g * resampled.palette.den
         /\ resampled.palette.colors[c].b * palette.den = palette.colors[c].b * resampled.palette.den

====
